---- MODULE Spec2Model ----
(***************************************************************************)
(* A model of the webptz control plane: the dispatcher of src/main.rs,     *)
(* which owns the devices and handles one Operation at a time, and the     *)
(* Device implementations of src/device/ (dummy, ronin, lumix, lanc) as    *)
(* far as the dispatcher observes them: their connection handle, the       *)
(* results of their calls and the I/O they perform.                        *)
(***************************************************************************)
EXTENDS Integers, Sequences, FiniteSets, TLC

\* ------------------------------------------------------------------ bounds
NumDevices == 2      \* devices used by the config's groups
MaxOps == 2          \* operations the websocket clients queue in one run
MaxReqLen == 2       \* length of a request's device list
MaxMappings == 4     \* length of a SaveDefaultControls list

\* --------------------------------------------------------- the config
Dev == 1..NumDevices
\* used_device_ids is unique and sorted: device i has id i
DeviceId(i) == i
\* an id a client may send that matches no device
UnknownId == NumDevices + 1
Kinds == <<"ronin", "lumix", "lanc", "dummy">>
\* the device built for each DeviceConfig variant; the configs considered
\* put each kind of driver at each position
Configs == { [i \in Dev |-> Kinds[((i + off) % Len(Kinds)) + 1]] : off \in 0..(Len(Kinds) - 1) }
ConfigGroups == << [name |-> "g", devices |-> [i \in Dev |-> DeviceId(i)]] >>
Instance == "uuid"

NoSnapshot == [published |-> FALSE]
\* Option<T>: None is <<>>, Some(x) is <<x>>
None == <<>>
Some(x) == <<x>>

VARIABLES
    kind,            \* kind[i]: which driver devices[i] is
    connected,       \* connected[i]: the driver holds a connection handle
    zoom_speed,      \* ronin: the connection's zoom_speed watch value
    zoom_unseen,     \* ronin: the zoom task has not yet seen zoom_speed
    zoom_task,       \* ronin: "none" | "waiting" | "burst" | "panicked"
    pc,              \* where main() is
    web,             \* where web_server() is
    queue,           \* the mpsc channel of Operations: who sent each
    sent,            \* how many operations the clients have queued
    cur,             \* the operation main() is handling
    todo,            \* devices of a sequential loop not yet visited
    default_controls,\* config.default_controls
    file,            \* the config file: the last save_config and what it left
    snapshot,        \* the value of the watch channel of State
    version,         \* the watch channel's version: one per publication
    pubs,            \* publications made while handling cur
    last,            \* last[i]: the driver call last made on device i
    calls,           \* calls[i]: driver calls made on device i for cur
    \* one device in detail (DeviceSpec)
    device,          \* the driver object: its fields
    tasks,           \* the background tasks its connections have spawned
    lastcall,        \* the call last made on it and what the call did
    \* one Ronin at the grain of its awaits (RoninSpec)
    ronin,           \* the driver, its caller, its tasks and the BLE link
    \* the functions of the program applied to inputs (FunctionSpec)
    evaluated        \* the function applied last, its input and its result

devvars == <<kind, connected, zoom_speed, zoom_unseen, zoom_task>>
mainvars == <<kind, connected, zoom_speed, zoom_unseen, zoom_task, pc, web, queue,
              sent, cur, todo, default_controls, file, snapshot, version, pubs, last, calls>>
\* what Spec leaves alone: it follows the devices by their connection handle
\* and the results of their calls only
aside == <<device, tasks, lastcall, ronin, evaluated>>
vars == <<mainvars, aside>>

\* ------------------------------------------------------------ helpers
\* inner: what the disconnect() inside a reconnect() returned
NoCall == [call |-> "none", res |-> "none", io |-> FALSE, conn_before |-> FALSE, phase |-> "none",
           inner |-> "none"]
\* open: calls of the dispatcher on the device that have not returned
NoCalls == [connect |-> 0, disconnect |-> 0, reconnect |-> 0, send_command |-> 0, commands |-> {},
            open |-> 0]
NoCommand == [ptr |-> FALSE, zoom |-> 0]
NoOp == [type |-> "Startup", devices |-> <<>>, command |-> NoCommand, controls |-> <<>>, seq |-> 0]

Range(s) == { s[k] : k \in DOMAIN s }

DevSeq == [i \in Dev |-> i]

\* devices.iter_mut().filter(|d| ids.iter().any(|x| x == &d.id())), in the
\* order of `devices`
Addressed(ids) == SelectSeq(DevSeq, LAMBDA i : \E k \in DOMAIN ids : ids[k] = DeviceId(i))

\* variant: no device is taken for connected
ConnectedDevs_Skipped == <<>>
\* devices.iter_mut().filter(|d| d.is_connected())
ConnectedDevs == SelectSeq(DevSeq, LAMBDA i : connected[i])

Running == { i \in Dev : last[i].res = "running" }

Begin(i, call) ==
    [call |-> call, res |-> "running", io |-> FALSE, conn_before |-> connected[i], phase |-> call,
     inner |-> "none"]

Count(i, call) == [calls[i] EXCEPT ![call] = @ + 1]
\* the dispatcher calls a method of device i / the call returns
Opened(i, call) == [Count(i, call) EXCEPT !.open = @ + 1]
Closed(i) == [calls EXCEPT ![i].open = @ - 1]

get_device_status == [i \in Dev |-> [id |-> DeviceId(i), connected |-> connected[i]]]

MainInit ==
    /\ kind \in Configs
    /\ connected = [i \in Dev |-> FALSE]
    /\ zoom_speed = [i \in Dev |-> 0]
    /\ zoom_unseen = [i \in Dev |-> FALSE]
    /\ zoom_task = [i \in Dev |-> "none"]
    /\ pc = "connect_devices"
    /\ web = "unspawned"
    /\ queue = <<>>
    /\ sent = 0
    /\ cur = NoOp
    /\ todo = [i \in Dev |-> i]
    /\ default_controls = None
    /\ file = [res |-> "none", complete |-> TRUE, default_controls |-> None]
    /\ snapshot = NoSnapshot
    /\ version = 0
    /\ pubs = 0
    /\ last = [i \in Dev |-> NoCall]
    /\ calls = [i \in Dev |-> NoCalls]

\* nothing has been evaluated
NotEvaluated == [function |-> "none", input |-> <<>>, output |-> <<>>]


\* ------------------------------------------------------------ the drivers
\* Each driver call is described by its possible outcomes <<res, io>>: res is
\* "ok" (Ok(())), "err" (an Err value) or "panic", io says whether the call
\* performed device I/O.

\* Device::connect
ConnectOutcomes(i) ==
    CASE kind[i] = "dummy" -> { <<"ok", FALSE>> }
      [] kind[i] = "ronin" -> { <<"ok", TRUE>>, <<"err", TRUE>> }
      [] kind[i] = "lumix" -> { <<"ok", TRUE>>, <<"err", TRUE>> }
      [] kind[i] = "lanc"  -> { <<"ok", TRUE>>, <<"err", TRUE>> }

\* the connection handle after connect returned res
ConnectHandle(i, res) == IF res = "ok" THEN TRUE ELSE connected[i]

DriverConnect(i, res) ==
    /\ connected' = [connected EXCEPT ![i] = ConnectHandle(i, res)]
    /\ IF kind[i] = "ronin" /\ res = "ok"
       THEN /\ zoom_speed' = [zoom_speed EXCEPT ![i] = 0]
            /\ zoom_unseen' = [zoom_unseen EXCEPT ![i] = FALSE]
            /\ zoom_task' = [zoom_task EXCEPT ![i] = "waiting"]
       ELSE UNCHANGED <<zoom_speed, zoom_unseen, zoom_task>>

\* Device::disconnect
DisconnectOutcomes(i) ==
    IF ~connected[i] THEN { <<"ok", FALSE>> }
    ELSE CASE kind[i] = "dummy" -> { <<"ok", FALSE>> }
           [] kind[i] = "ronin" -> { <<"ok", TRUE>>, <<"err", TRUE>> }
           [] kind[i] = "lumix" -> { <<"ok", TRUE>>, <<"err", TRUE>> }
           [] kind[i] = "lanc"  -> { <<"ok", FALSE>> }

\* variant: the handle is never cleared
DisconnectHandle_Kept(i, res) == connected[i]
\* the connection handle after disconnect returned res
DisconnectHandle(i, res) == IF res = "ok" THEN FALSE ELSE connected[i]

DriverDisconnect(i, res) ==
    /\ connected' = [connected EXCEPT ![i] = DisconnectHandle(i, res)]
    /\ IF kind[i] = "ronin" /\ res = "ok"
       THEN \* the Connection is dropped: this model follows the tasks of the
            \* current connection only
            /\ zoom_speed' = [zoom_speed EXCEPT ![i] = 0]
            /\ zoom_unseen' = [zoom_unseen EXCEPT ![i] = FALSE]
            /\ zoom_task' = [zoom_task EXCEPT ![i] = "none"]
       ELSE UNCHANGED <<zoom_speed, zoom_unseen, zoom_task>>

\* Ronin::send_command
ptr_unchanged(command) == ~command.ptr
zoom_unchanged(i, command) == command.zoom = 0 /\ zoom_speed[i] = 0

RoninSendOutcomes(i, command) ==
    IF ptr_unchanged(command) /\ zoom_unchanged(i, command)
    THEN { <<"ok", FALSE>> }
    ELSE \* try_resume_connection(...)? may return Err
         { <<"err", TRUE>>, <<"ok", TRUE>> }
         \* peripheral.write(...).await.unwrap() panics when the write fails
         \cup (IF ~ptr_unchanged(command) THEN { <<"panic", TRUE>> } ELSE {})

\* Device::send_command
SendOutcomes(i, command) ==
    IF ~connected[i] THEN { <<"ok", FALSE>> }
    ELSE CASE kind[i] = "dummy" -> { <<"ok", FALSE>> }
           [] kind[i] = "ronin" -> RoninSendOutcomes(i, command)
           \* the transactions a command needs depend on the zoom state; each
           \* may fail with an error value
           [] kind[i] = "lumix" -> { <<"ok", FALSE>>, <<"ok", TRUE>>, <<"err", TRUE>> }
           \* the pair is handed to the sender task through the channel
           [] kind[i] = "lanc"  -> { <<"ok", FALSE>> }

\* variant: an Err from send_command clears the handle
SendHandle_DroppedOnErr(i, res) == IF res = "err" THEN FALSE ELSE connected[i]
\* the connection handle after send_command returned res
SendHandle(i, res) == connected[i]

DriverSend(i, command, res) ==
    /\ connected' = [connected EXCEPT ![i] = SendHandle(i, res)]
    /\ IF connected[i] /\ kind[i] = "ronin" /\ res = "ok" /\ ~zoom_unchanged(i, command)
       THEN /\ zoom_speed' = [zoom_speed EXCEPT ![i] = command.zoom]
            /\ zoom_unseen' = [zoom_unseen EXCEPT ![i] = TRUE]
       ELSE UNCHANGED <<zoom_speed, zoom_unseen>>
    /\ UNCHANGED zoom_task

Return(i, out) == [last EXCEPT ![i].res = out[1], ![i].io = @ \/ out[2]]


\* ------------------------------------------------------------ publication
\* watch::channel(State {..}) and state_tx.send_modify(..)
Publish(state) ==
    /\ snapshot' = state
    /\ version' = version + 1
    /\ pubs' = pubs + 1

InitialState ==
    [published |-> TRUE, instance |-> Instance, groups |-> ConfigGroups,
     devices |-> get_device_status, default_controls |-> default_controls]

\* ------------------------------------------------------------ startup
\* connect_devices: the next device.connect() of the loop is called
ConnectNext ==
    /\ pc = "connect_devices"
    /\ Running = {}
    /\ todo # <<>>
    /\ LET i == Head(todo) IN
        /\ last' = [last EXCEPT ![i] = Begin(i, "connect")]
        /\ calls' = [calls EXCEPT ![i] = Opened(i, "connect")]
    /\ todo' = Tail(todo)
    /\ UNCHANGED <<aside, devvars, file, pc, web, queue, sent, cur, default_controls, snapshot, version, pubs>>

\* connect_devices: device.connect().await returns; `?` leaves the loop on Err,
\* and main() goes on to disconnect_devices and returns the error
ConnectReturns(i) ==
    /\ pc = "connect_devices"
    /\ last[i].res = "running"
    /\ \E out \in ConnectOutcomes(i) :
        /\ DriverConnect(i, out[1])
        /\ last' = Return(i, out)
        /\ IF out[1] = "ok"
           THEN UNCHANGED <<pc, todo>>
           ELSE /\ pc' = "unwind"
                /\ todo' = ConnectedDevs'
    /\ calls' = Closed(i)
    /\ UNCHANGED <<aside, kind, file, web, queue, sent, cur, default_controls, snapshot, version, pubs>>

\* the state channel is created with the initial State and the web server is
\* spawned; main() enters the loop
StartupDone ==
    /\ pc = "connect_devices"
    /\ Running = {}
    /\ todo = <<>>
    /\ Publish(InitialState)
    /\ web' = "starting"
    /\ pc' = "recv"
    /\ UNCHANGED <<aside, devvars, file, queue, sent, cur, todo, default_controls, last, calls>>

\* disconnect_devices (after a failed startup, or for Shutdown): the next
\* device.disconnect() of the loop is called
DisconnectDevicesNext ==
    /\ pc \in {"unwind", "shutdown_disconnect"}
    /\ Running = {}
    /\ todo # <<>>
    /\ LET i == Head(todo) IN
        /\ last' = [last EXCEPT ![i] = Begin(i, "disconnect")]
        /\ calls' = [calls EXCEPT ![i] = Opened(i, "disconnect")]
    /\ todo' = Tail(todo)
    /\ UNCHANGED <<aside, devvars, file, pc, web, queue, sent, cur, default_controls, snapshot, version, pubs>>

\* device.disconnect().await returns in one of the sequential loops; an Err is
\* printed and the loop goes on
DisconnectReturns(i) ==
    /\ pc \in {"unwind", "shutdown_disconnect", "Disconnect"}
    /\ last[i].res = "running"
    /\ \E out \in DisconnectOutcomes(i) :
        /\ DriverDisconnect(i, out[1])
        /\ last' = Return(i, out)
    /\ calls' = Closed(i)
    /\ UNCHANGED <<aside, kind, file, pc, web, queue, sent, cur, todo, default_controls, snapshot, version, pubs>>

\* main() returns Err(e) after disconnect_devices
UnwindDone ==
    /\ pc = "unwind"
    /\ Running = {}
    /\ todo = <<>>
    /\ pc' = "exited_err"
    /\ UNCHANGED <<aside, devvars, file, web, queue, sent, cur, todo, default_controls, snapshot, version, pubs, last, calls>>


\* ------------------------------------------------------------ the transport
Ids == 1..UnknownId
IdLists == UNION { [1..n -> Ids] : n \in 0..MaxReqLen }
\* a Command as the drivers read it: ptr is "pan, tilt or roll is not 0.0"
Commands == { [ptr |-> FALSE, zoom |-> 0], [ptr |-> TRUE, zoom |-> 0], [ptr |-> FALSE, zoom |-> 1] }
\* Mappings: each input list is an Option<Vec<PadInput>>
MappingsFields == {"pan_l", "pan_r", "tilt_u", "tilt_d", "roll_l", "roll_r", "zoom_i", "zoom_o",
                   "focus_f", "focus_n", "focus_a"}
\* the Mappings a client sends here: one with every list absent or empty, one
\* with an input in its last list
MappingsSent ==
    { [f \in MappingsFields |-> IF f \in {"pan_l", "zoom_i"} THEN Some(<<>>) ELSE None],
      [f \in MappingsFields |->
          IF f = "focus_a" THEN Some(<<"pad">>) ELSE IF f = "pan_l" THEN Some(<<>>) ELSE None] }
ControlLists == UNION { [1..n -> MappingsSent] : n \in 0..MaxMappings }

\* process_message: Request -> Operation
Requests ==
    { [type |-> "Command", devices |-> d, command |-> c, controls |-> <<>>, seq |-> 0] : d \in IdLists, c \in Commands }
    \cup { [type |-> t, devices |-> d, command |-> NoCommand, controls |-> <<>>, seq |-> 0] : t \in {"Disconnect", "Reconnect"}, d \in IdLists }
    \cup { [type |-> "SaveDefaultControls", devices |-> <<>>, command |-> NoCommand, controls |-> l, seq |-> 0] : l \in ControlLists }
ShutdownOp == [type |-> "Shutdown", devices |-> <<>>, command |-> NoCommand, controls |-> <<>>, seq |-> 0]

\* the process is running: main() has neither returned nor panicked
Alive == pc \notin {"exited_ok", "exited_err", "panicked"}

\* web_server: TcpListener::bind(..).await.unwrap(); a panic ends the task and
\* drops its senders
WebServerBinds ==
    /\ Alive
    /\ web = "starting"
    /\ web' \in {"serving", "crashed"}
    /\ UNCHANGED <<aside, devvars, file, pc, queue, sent, cur, todo, default_controls, snapshot, version, pubs, last, calls>>

\* the messages sent into the channel so far
Sends == sent + (IF web = "stopped" THEN 1 ELSE 0)

\* process_message: a websocket client's request is queued. What the request
\* says is the client's choice and nothing reads it before main() receives
\* it: the queue records whose message it is and the how-manyth message sent
\* (n), Recv draws the request
ClientRequest ==
    /\ Alive
    /\ web \in {"serving", "stopped"}
    /\ sent < MaxOps
    /\ queue' = Append(queue, [from |-> "client", n |-> Sends + 1])
    /\ sent' = sent + 1
    /\ UNCHANGED <<aside, devvars, file, pc, web, cur, todo, default_controls, snapshot, version, pubs, last, calls>>

\* web_server: axum::serve returns on the shutdown signal and queues Shutdown
ShutdownSignal ==
    /\ Alive
    /\ web = "serving"
    /\ queue' = Append(queue, [from |-> "web_server", n |-> Sends + 1])
    /\ web' = "stopped"
    /\ UNCHANGED <<aside, devvars, file, pc, sent, cur, todo, default_controls, snapshot, version, pubs, last, calls>>

\* ------------------------------------------------------------ the main loop
\* the Operation a queued message is
Received(message) ==
    { [operation EXCEPT !.seq = message.n] :
        operation \in IF message.from = "web_server" THEN {ShutdownOp} ELSE Requests }

\* command_rx.recv().await returns Some(operation)
Recv ==
    /\ pc = "recv"
    /\ queue # <<>>
    /\ \E operation \in Received(Head(queue)) :
        /\ cur' = operation
        /\ pc' = operation.type
        /\ todo' = Addressed(operation.devices)
    /\ queue' = Tail(queue)
    /\ pubs' = 0
    /\ last' = [i \in Dev |-> NoCall]
    /\ calls' = [i \in Dev |-> NoCalls]
    /\ UNCHANGED <<aside, devvars, file, web, sent, default_controls, snapshot, version>>

\* command_rx.recv().await returns None: every sender is gone
QueueClosed ==
    /\ pc = "recv"
    /\ queue = <<>>
    /\ web = "crashed"
    /\ pc' = "exited_ok"
    /\ UNCHANGED <<aside, devvars, file, web, queue, sent, cur, todo, default_controls, snapshot, version, pubs, last, calls>>

\* variant: one future per listed id that names a device
CommandTargets_Listed(ids) == SelectSeq(ids, LAMBDA x : x \in Dev)
\* Operation::Command: the devices a Command makes a send_command future for
CommandTargets(ids) == Addressed(ids)

RECURSIVE CallAll(_, _, _)
\* send_command is called once for each element of targets
CallAll(targets, command, c) ==
    IF targets = <<>> THEN c
    ELSE CallAll(Tail(targets), command,
                 [c EXCEPT ![Head(targets)].send_command = @ + 1,
                           ![Head(targets)].commands = @ \cup {command},
                           ![Head(targets)].open = @ + 1])

\* Operation::Command: one send_command future per addressed device, all
\* started by join_all
CommandFanOut ==
    /\ pc = "Command"
    /\ LET targets == CommandTargets(cur.devices) IN
        /\ calls' = CallAll(targets, cur.command, calls)
        /\ last' = [i \in Dev |-> IF i \in Range(targets) THEN Begin(i, "send_command") ELSE last[i]]
    /\ todo' = <<>>
    /\ pc' = "join_all"
    /\ UNCHANGED <<aside, devvars, file, web, queue, sent, cur, default_controls, snapshot, version, pubs>>

\* what panicking in main() does to the futures join_all still holds
Unwind(l, i) ==
    [j \in Dev |-> IF j = i THEN [l[j] EXCEPT !.res = "panic"]
                   ELSE IF l[j].res = "running" THEN [l[j] EXCEPT !.res = "dropped"]
                   ELSE l[j]]

\* one send_command future completes; an Err is printed by map_err, a panic
\* unwinds main()
SendCommandReturns(i) ==
    /\ pc = "join_all"
    /\ last[i].res = "running"
    /\ \E out \in SendOutcomes(i, cur.command) :
        /\ DriverSend(i, cur.command, out[1])
        /\ IF out[1] = "panic"
           THEN /\ last' = Unwind(Return(i, out), i)
                /\ pc' = "panicked"
           ELSE /\ last' = Return(i, out)
                /\ pc' = pc
    /\ calls' = Closed(i)
    /\ UNCHANGED <<aside, kind, file, web, queue, sent, cur, todo, default_controls, snapshot, version, pubs>>

\* variant: the Command arm refreshes the snapshot
CommandDone_Publishes ==
    /\ pc = "join_all"
    /\ Running = {}
    /\ pc' = "recv"
    /\ Publish([snapshot EXCEPT !.devices = get_device_status])
    /\ UNCHANGED <<aside, devvars, file, web, queue, sent, cur, todo, default_controls, last, calls>>

\* variant: the arm ends as soon as one of the futures has completed
Joined_First == \E i \in Dev : last[i].res # "running"
\* join_all(futures): every future has completed
Joined == Running = {}

\* join_all(futures).await returns
CommandDone ==
    /\ pc = "join_all"
    /\ Joined
    /\ pc' = "recv"
    /\ UNCHANGED <<aside, devvars, file, web, queue, sent, cur, todo, default_controls, snapshot, version, pubs, last, calls>>


\* Operation::Disconnect: the next device.disconnect() of the loop is called
DisconnectNext ==
    /\ pc = "Disconnect"
    /\ Running = {}
    /\ todo # <<>>
    /\ LET i == Head(todo) IN
        /\ last' = [last EXCEPT ![i] = Begin(i, "disconnect")]
        /\ calls' = [calls EXCEPT ![i] = Opened(i, "disconnect")]
    /\ todo' = Tail(todo)
    /\ UNCHANGED <<aside, devvars, file, pc, web, queue, sent, cur, default_controls, snapshot, version, pubs>>

\* Operation::Reconnect: the next device.reconnect() of the loop is called;
\* reconnect() starts with self.disconnect()
ReconnectNext ==
    /\ pc = "Reconnect"
    /\ Running = {}
    /\ todo # <<>>
    /\ LET i == Head(todo) IN
        /\ last' = [last EXCEPT ![i] = [Begin(i, "reconnect") EXCEPT !.phase = "disconnect"]]
        /\ calls' = [calls EXCEPT ![i] = [Opened(i, "reconnect") EXCEPT !.disconnect = @ + 1]]
    /\ todo' = Tail(todo)
    /\ UNCHANGED <<aside, devvars, file, pc, web, queue, sent, cur, default_controls, snapshot, version, pubs>>

\* variant: reconnect() goes on to connect() whatever disconnect() returned
ReconnectProceeds_Always(res) == TRUE
\* reconnect(): the `?` of self.disconnect().await? lets the body go on
ReconnectProceeds(res) == res = "ok"

\* reconnect(): self.disconnect().await? returns
ReconnectDisconnectReturns(i) ==
    /\ pc = "Reconnect"
    /\ last[i].res = "running"
    /\ last[i].phase = "disconnect"
    /\ \E out \in DisconnectOutcomes(i) :
        /\ DriverDisconnect(i, out[1])
        /\ IF ReconnectProceeds(out[1])
           THEN /\ last' = [last EXCEPT ![i].io = @ \/ out[2], ![i].phase = "connect",
                                        ![i].inner = out[1]]
                /\ calls' = [calls EXCEPT ![i] = Count(i, "connect")]
           ELSE /\ last' = [Return(i, out) EXCEPT ![i].inner = out[1]]
                /\ calls' = Closed(i)
    /\ UNCHANGED <<aside, kind, file, pc, web, queue, sent, cur, todo, default_controls, snapshot, version, pubs>>

\* reconnect(): self.connect().await? returns
ReconnectConnectReturns(i) ==
    /\ pc = "Reconnect"
    /\ last[i].res = "running"
    /\ last[i].phase = "connect"
    /\ \E out \in ConnectOutcomes(i) :
        /\ DriverConnect(i, out[1])
        /\ last' = Return(i, out)
    /\ calls' = Closed(i)
    /\ UNCHANGED <<aside, kind, file, pc, web, queue, sent, cur, todo, default_controls, snapshot, version, pubs>>

\* variant: the devices section is not refreshed
DevicesPublished_Stale == snapshot
\* Operation::Disconnect / Reconnect: the State after send_modify
DevicesPublished == [snapshot EXCEPT !.groups = ConfigGroups, !.devices = get_device_status]

\* Operation::Disconnect / Reconnect: state_tx.send_modify after the loop
PublishDevices ==
    /\ pc \in {"Disconnect", "Reconnect"}
    /\ Running = {}
    /\ todo = <<>>
    /\ Publish(DevicesPublished)
    /\ pc' = "recv"
    /\ UNCHANGED <<aside, devvars, file, web, queue, sent, cur, todo, default_controls, last, calls>>

\* variant: only the groups are emptied
ShutdownPublished_GroupsOnly == [snapshot EXCEPT !.groups = <<>>]
\* Operation::Shutdown: the State after send_modify
ShutdownPublished == [snapshot EXCEPT !.groups = <<>>, !.devices = << >>]

\* Operation::Shutdown: state_tx.send_modify, then disconnect_devices starts
ShutdownPublish ==
    /\ pc = "Shutdown"
    /\ Publish(ShutdownPublished)
    /\ todo' = ConnectedDevs
    /\ pc' = "shutdown_disconnect"
    /\ UNCHANGED <<aside, devvars, file, web, queue, sent, cur, default_controls, last, calls>>

\* Operation::Shutdown: break; main() returns Ok(())
ShutdownDone ==
    /\ pc = "shutdown_disconnect"
    /\ Running = {}
    /\ todo = <<>>
    /\ pc' = "exited_ok"
    /\ UNCHANGED <<aside, devvars, file, web, queue, sent, cur, todo, default_controls, snapshot, version, pubs, last, calls>>

\* empty_or_none: val.as_ref().is_none_or(|v| v.is_empty())
empty_or_none(val) == val = None \/ val[1] = <<>>
\* Mappings::is_empty
is_empty(m) == \A f \in MappingsFields : empty_or_none(m[f])

\* request.iter().rposition(|x| !x.is_empty()): the index found, from 1; 0 is
\* None
rposition(request) ==
    LET found == { k \in DOMAIN request : ~is_empty(request[k]) } IN
    IF found = {} THEN 0 ELSE CHOOSE k \in found : \A m \in found : m <= k

\* variant: every empty element is removed
Truncated_Compacted(request) == SelectSeq(request, LAMBDA m : ~is_empty(m))
\* request.truncate(idx + 1) for the last idx with !request[idx].is_empty()
Truncated(request) == SubSeq(request, 1, rposition(request))

\* Operation::SaveDefaultControls: the value given to config.default_controls
Trimmed(request) == IF rposition(request) = 0 THEN None ELSE Some(Truncated(request))

\* save_config: the file after tokio::fs::write returned res; a failed write
\* may have truncated the file or written a part of the content
Saved(res) ==
    IF res = "ok"
    THEN { [res |-> "ok", complete |-> TRUE, default_controls |-> default_controls'] }
    ELSE { [file EXCEPT !.res = "err"],
           [res |-> "err", complete |-> FALSE, default_controls |-> None] }

\* variant: the error of save_config is printed and the loop goes on
AfterSave_Logged(res) == "recv"
\* save_config(&config).await?: where main() is after it returned res
AfterSave(res) == IF res = "ok" THEN "recv" ELSE "exited_err"

\* Operation::SaveDefaultControls: save_config(..).await? either returns Ok, and
\* the new default_controls are published, or its Err leaves main()
SaveDefaultControls ==
    /\ pc = "SaveDefaultControls"
    /\ default_controls' = Trimmed(cur.controls)
    /\ \E res \in {"ok", "err"} :
        /\ file' \in Saved(res)
        /\ pc' = AfterSave(res)
        /\ IF pc' = "recv"
           THEN Publish([snapshot EXCEPT !.default_controls = default_controls'])
           ELSE UNCHANGED <<snapshot, version, pubs>>
    /\ UNCHANGED <<aside, devvars, web, queue, sent, cur, todo, last, calls>>

\* ------------------------------------------------------------ ronin tasks
\* create_zoom_task: zoom_speed_rx.changed().await returns; the burst starts
\* when the speed read is not 0.0
ZoomTaskWakes(i) ==
    /\ Alive
    /\ zoom_task[i] = "waiting"
    /\ zoom_unseen[i]
    /\ zoom_unseen' = [zoom_unseen EXCEPT ![i] = FALSE]
    /\ zoom_task' = [zoom_task EXCEPT ![i] = IF zoom_speed[i] # 0 THEN "burst" ELSE "waiting"]
    /\ UNCHANGED <<aside, kind, file, connected, zoom_speed, pc, web, queue, sent, cur, todo, default_controls,
                   snapshot, version, pubs, last, calls>>

\* create_zoom_task: one tick of the burst: the frame is written (write(..)
\* .await.unwrap() panics when the write fails), then the speed is read again
ZoomTaskTick(i) ==
    /\ Alive
    /\ zoom_task[i] = "burst"
    /\ \E written \in BOOLEAN :
        IF written
        THEN /\ zoom_unseen' = [zoom_unseen EXCEPT ![i] = FALSE]
             /\ zoom_task' = [zoom_task EXCEPT ![i] = IF zoom_speed[i] # 0 THEN "burst" ELSE "waiting"]
        ELSE /\ zoom_task' = [zoom_task EXCEPT ![i] = "panicked"]
             /\ UNCHANGED zoom_unseen
    /\ UNCHANGED <<aside, kind, file, connected, zoom_speed, pc, web, queue, sent, cur, todo, default_controls,
                   snapshot, version, pubs, last, calls>>

\* ============================================================ one device
\* DeviceSpec follows one device object in detail: the fields of the driver,
\* the tasks its connections spawn and the I/O of each call. Its caller makes
\* the calls main() makes: connect at startup, then one call at a time.
MaxCalls == 3        \* calls made on the device in one run
MaxFrames == 2       \* sequence numbers one zoom task takes in one run
MaxWrites == 3       \* writes of a LANC sender in one burst

Capability == {"ptr", "zoom", "focus", "autofocus"}
\* u16: get_seq wraps
SeqModulus == 65536
\* a Command: ptr is "pan, tilt or roll is not 0.0"; zoom and focus in
\* hundredths
DeviceCommands == [ptr : BOOLEAN, zoom : {-100, 0, 50, 100}, focus : {0, 100}, autofocus : BOOLEAN]

\* create(): the device built from a DeviceConfig of kind k whose capability
\* list is caps. connection: the handle is Some; task: which of `tasks`
\* belongs to it. The fields after next_seq are those of the Connection.
\* zoomed and failed tell what went over the connection's socket: the zoom
\* transaction completely sent last, with the pair a start_zoom carried, and
\* whether a transaction has returned an error; packets: the transaction ids
\* in the packets built for the socket since open_session, a command packet's
\* and, where the transaction has one, the two of its data packet
NoZoom == [sent |-> "none", dir |-> "Wide", speed |-> "Off"]
Created(k, caps) ==
    [kind |-> k, capabilities |-> caps, connection |-> FALSE, task |-> 0, next_seq |-> 0,
     curr_transaction_id |-> 0, curr_dir |-> "Wide", curr_speed |-> "Off",
     zoomed |-> NoZoom, failed |-> FALSE, packets |-> <<>>]

\* tokio::spawn: a task and the channel ends it holds. owner: "connection"
\* while the Connection that spawned it exists, "dropped" once that was
\* dropped, "failed" when connect() returned Err after the spawn. speed, unseen:
\* the zoom_speed watch channel; channel: the pairs queued for a LANC sender;
\* frames: the sequence numbers the task has taken. Of a LANC sender in a
\* burst (state "reading"): data, the pair; counter; written, the codes written
\* in the burst, each with whether a 0x0A was read since the write before (by
\* whom: the owner at the time of the write); bridge: what a read of the serial
\* port meets
Spawned(of) ==
    [of |-> of, state |-> IF of = "event_reader" THEN "running" ELSE "waiting",
     owner |-> "connection", speed |-> 0, unseen |-> FALSE, channel |-> <<>>, frames |-> 0,
     data |-> <<>>, counter |-> 0, written |-> <<>>, bridge |-> "frames"]

NoDeviceCall ==
    [n |-> 0, op |-> "none", command |-> [ptr |-> FALSE, zoom |-> 0, focus |-> 0, autofocus |-> FALSE],
     res |-> "none", wire |-> <<>>]

\* A call is given the I/O operation of it that fails: fail = 0 is none, fail
\* = k its k-th. What a call did: the device and the tasks after it, the I/O it
\* made (wire) and its result.

\* Device::connect
Connect(d, t, fail) ==
    LET of == CASE d.kind = "ronin" -> "zoom" [] d.kind = "lumix" -> "event_reader"
                [] d.kind = "lanc" -> "sender" [] OTHER -> "none"
    IN  IF d.kind = "dummy"
        THEN [device |-> [d EXCEPT !.connection = TRUE], tasks |-> t, wire |-> <<>>, res |-> "ok"]
        ELSE IF fail = 0
        THEN [device |-> [d EXCEPT !.connection = TRUE, !.task = Len(t) + 1,
                                   !.curr_transaction_id = IF d.kind = "lumix" THEN 1 ELSE 0],
              tasks |-> Append(t, Spawned(of)), wire |-> <<"connect">>, res |-> "ok"]
        \* Lumix: open_session fails after the event reader was spawned
        ELSE IF fail = 2
        THEN [device |-> d, tasks |-> Append(t, [Spawned(of) EXCEPT !.owner = "failed"]),
              wire |-> <<"connect">>, res |-> "err"]
        ELSE [device |-> d, tasks |-> t, wire |-> <<"connect">>, res |-> "err"]

ConnectFailures(d) ==
    CASE d.kind = "dummy" -> {0} [] d.kind = "lumix" -> {0, 1, 2} [] OTHER -> {0, 1}

\* Device::disconnect
Disconnect(d, t, fail) ==
    LET none == [d EXCEPT !.connection = FALSE, !.task = 0, !.curr_transaction_id = 0,
                          !.curr_dir = "Wide", !.curr_speed = "Off",
                          !.zoomed = NoZoom, !.failed = FALSE, !.packets = <<>>]
    IN  IF ~d.connection
        THEN [device |-> d, tasks |-> t, wire |-> <<>>, res |-> "ok"]
        ELSE CASE d.kind = "dummy" ->
                 [device |-> none, tasks |-> t, wire |-> <<>>, res |-> "ok"]
          [] d.kind = "ronin" ->
                 \* c.peripheral.disconnect().await?; self.connection = None drops
                 \* the JoinHandles and the zoom_speed sender
                 IF fail = 0
                 THEN [device |-> none, tasks |-> [t EXCEPT ![d.task].owner = "dropped"],
                       wire |-> <<"disconnect">>, res |-> "ok"]
                 ELSE [device |-> d, tasks |-> t, wire |-> <<"disconnect">>, res |-> "err"]
          [] d.kind = "lumix" ->
                 \* c.event_task.abort() comes before the shutdowns
                 IF fail = 0
                 THEN [device |-> none,
                       tasks |-> [t EXCEPT ![d.task].owner = "dropped", ![d.task].state = "aborted"],
                       wire |-> <<"shutdown", "shutdown">>, res |-> "ok"]
                 ELSE [device |-> d, tasks |-> [t EXCEPT ![d.task].state = "aborted"],
                       wire |-> <<"shutdown">>, res |-> "err"]
          [] d.kind = "lanc" ->
                 [device |-> none, tasks |-> [t EXCEPT ![d.task].owner = "dropped"],
                  wire |-> <<>>, res |-> "ok"]

DisconnectFailures(d) ==
    IF d.connection /\ d.kind \in {"ronin", "lumix"} THEN {0, 1} ELSE {0}

\* Device::reconnect
Reconnect(d, t, fail1, fail2) ==
    LET a == Disconnect(d, t, fail1)
        b == Connect(a.device, a.tasks, fail2)
    IN  IF ReconnectProceeds(a.res) THEN [b EXCEPT !.wire = a.wire \o b.wire] ELSE a

\* variant: the zoom part of a command always counts as a change
ZoomUnchanged_Never(d, t, command) == FALSE
\* Ronin::send_command: zoom_unchanged
ZoomUnchanged(d, t, command) == command.zoom = 0 /\ t[d.task].speed = 0

\* Ronin::send_command on a connected device; I/O 1 is try_resume_connection,
\* I/O 2 the write of the PTR frame
RoninSend(d, t, command, fail) ==
    LET zoom_idle == ZoomUnchanged(d, t, command)
        seq == IF ptr_unchanged(command) THEN d.next_seq ELSE (d.next_seq + 1) % SeqModulus
        frame == IF ptr_unchanged(command) THEN <<>> ELSE <<"ptr_frame">>
    IN  IF ptr_unchanged(command) /\ zoom_idle
        THEN [device |-> d, tasks |-> t, wire |-> <<>>, res |-> "ok"]
        ELSE IF fail = 1
        THEN [device |-> d, tasks |-> t, wire |-> <<"try_resume">>, res |-> "err"]
        ELSE IF fail = 2
        THEN [device |-> [d EXCEPT !.next_seq = seq], tasks |-> t,
              wire |-> <<"try_resume">> \o frame, res |-> "panic"]
        ELSE [device |-> [d EXCEPT !.next_seq = seq],
              tasks |-> IF zoom_idle THEN t
                        ELSE [t EXCEPT ![d.task].speed = command.zoom, ![d.task].unseen = TRUE],
              wire |-> <<"try_resume">> \o frame, res |-> "ok"]

\* variant: zoom = 0.0 stands for Wide
ZoomDir_Reset(d, zoom) == IF zoom > 0 THEN "Tele" ELSE "Wide"
\* handle_zoom: the direction and the speed a zoom value stands for
ZoomDir(d, zoom) == IF zoom < 0 THEN "Wide" ELSE IF zoom > 0 THEN "Tele" ELSE d.curr_dir
\* the speed for a zoom value counted in 1/unit
ZoomSpeedIn(zoom, unit) ==
    IF zoom * 100 < -75 * unit THEN "High" ELSE IF zoom < 0 THEN "Low"
    ELSE IF zoom * 100 > 75 * unit THEN "High" ELSE IF zoom > 0 THEN "Low" ELSE "Off"
ZoomSpeed(zoom) == ZoomSpeedIn(zoom, 100)

\* Lumix::send_command: the transactions handle_autofocus, handle_focus and
\* handle_zoom send, in order, when none fails
LumixTransactions(d, command) ==
    (IF "autofocus" \in d.capabilities /\ command.autofocus THEN <<"one_shot_af">> ELSE <<>>)
    \o (IF "focus" \in d.capabilities /\ command.focus # 0 THEN <<"adjust_focus">> ELSE <<>>)
    \o (IF "zoom" \in d.capabilities
           /\ ~(ZoomDir(d, command.zoom) = d.curr_dir /\ ZoomSpeed(command.zoom) = d.curr_speed)
        THEN (IF d.curr_speed # "Off" THEN <<"stop_zoom">> ELSE <<>>)
             \o (IF ZoomSpeed(command.zoom) # "Off" THEN <<"start_zoom">> ELSE <<>>)
        ELSE <<>>)

\* the socket after the transactions `done` of a command have been sent
Zoomed(d, command, done) ==
    IF \E k \in DOMAIN done : done[k] = "start_zoom"
    THEN [sent |-> "start_zoom", dir |-> ZoomDir(d, command.zoom), speed |-> ZoomSpeed(command.zoom)]
    ELSE IF \E k \in DOMAIN done : done[k] = "stop_zoom"
    THEN [sent |-> "stop_zoom", dir |-> d.zoomed.dir, speed |-> "Off"]
    ELSE d.zoomed

\* variant: a transaction counts itself when it has been sent
Counted_WhenSent(made, fail) == IF fail = 0 THEN made ELSE made - 1
\* transaction, transaction_with_data: `self.curr_transaction_id += 1` comes
\* before the writes, so of the transactions made the one that fails counts
Counted(made, fail) == made

\* the packets of the transactions `names`: each is built with the
\* curr_transaction_id of the time, a data packet with it in transaction_id
\* and in transaction_id2
LumixPackets(d, names) ==
    [k \in 1..Len(names) |->
        LET id == d.curr_transaction_id + (k - 1)
        IN  [transaction_id |-> id,
             data |-> IF names[k] = "one_shot_af" THEN <<>> ELSE <<id, id>>]]

\* Lumix::send_command on a connected device; I/O k is its k-th transaction. A
\* transaction counts itself before it sends; an Err returns at once
LumixSend(d, t, command, fail) ==
    LET all == LumixTransactions(d, command) IN
    IF fail = 0
    THEN [device |-> [d EXCEPT !.curr_transaction_id = @ + Counted(Len(all), 0),
                               !.packets = @ \o LumixPackets(d, all),
                               !.curr_dir = IF "zoom" \in d.capabilities
                                            THEN ZoomDir(d, command.zoom) ELSE @,
                               !.curr_speed = IF "zoom" \in d.capabilities
                                              THEN ZoomSpeed(command.zoom) ELSE @,
                               !.zoomed = Zoomed(d, command, all)],
          tasks |-> t, wire |-> all, res |-> "ok"]
    ELSE [device |-> [d EXCEPT !.curr_transaction_id = @ + Counted(fail, fail),
                               !.packets = @ \o LumixPackets(d, SubSeq(all, 1, fail)),
                               !.zoomed = Zoomed(d, command, SubSeq(all, 1, fail - 1)),
                               !.failed = TRUE],
          tasks |-> t, wire |-> SubSeq(all, 1, fail), res |-> "err"]

\* Lanc::send_command: the code for a zoom value
LancZoom(x) ==
    CASE x >= 80 -> "280E" [] x >= 70 -> "280C" [] x >= 60 -> "280A" [] x >= 50 -> "2808"
      [] x >= 40 -> "2806" [] x >= 30 -> "2804" [] x >= 20 -> "2802" [] x >= 0 -> "2800"
      [] x <= -80 -> "281E" [] x <= -70 -> "281C" [] x <= -60 -> "281A" [] x <= -50 -> "2818"
      [] x <= -40 -> "2816" [] x <= -30 -> "2814" [] x <= -20 -> "2812" [] OTHER -> "2810"
\* Lanc::send_command: the code for a focus value
LancFocus(x) ==
    CASE x >= 80 -> "28EB" [] x >= 65 -> "28E9" [] x >= 50 -> "28E7" [] x >= 35 -> "28E5"
      [] x >= 20 -> "28E3" [] x >= 0 -> "28E1"
      [] x <= -80 -> "28FB" [] x <= -65 -> "28F9" [] x <= -50 -> "28F7" [] x <= -35 -> "28F5"
      [] x <= -20 -> "28F3" [] OTHER -> "28F1"

\* variant: a single command is sent as it is
LancPair_Single(commands) == commands
\* Lanc::send_command: `if commands.len() == 1 { commands.push(commands[0]) }`
LancPair(commands) == IF Len(commands) = 1 THEN commands \o commands ELSE commands

\* Lanc::send_command on a connected device: the pair goes into the channel
LancSend(d, t, command) ==
    LET commands ==
            (IF command.zoom # 0 THEN <<LancZoom(command.zoom)>> ELSE <<>>)
            \o (IF command.autofocus THEN <<"2843">>
                ELSE IF command.focus # 0 THEN <<LancFocus(command.focus)>> ELSE <<>>)
        arr == LancPair(commands)
    IN  [device |-> d,
         tasks |-> IF commands = <<>> THEN t ELSE [t EXCEPT ![d.task].channel = Append(@, arr)],
         wire |-> <<>>, res |-> "ok"]

\* variant: Lumix::send_command does not look for the connection
NotConnected_LumixUnchecked(d) == ~d.connection /\ d.kind # "lumix"
\* send_command: `match &self.connection { None => .. }`
NotConnected(d) == ~d.connection

\* Device::send_command; Dummy's only prints
SendCommand(d, t, command, fail) ==
    IF NotConnected(d) THEN [device |-> d, tasks |-> t, wire |-> <<>>, res |-> "ok"]
    ELSE CASE d.kind = "ronin" -> RoninSend(d, t, command, fail)
           [] d.kind = "lumix" -> LumixSend(d, t, command, fail)
           [] d.kind = "lanc"  -> LancSend(d, t, command)
           [] d.kind = "dummy" -> [device |-> d, tasks |-> t, wire |-> <<>>, res |-> "ok"]

SendFailures(d, t, command) ==
    IF NotConnected(d) THEN {0}
    ELSE CASE d.kind = "ronin" ->
                  IF ptr_unchanged(command) /\ ZoomUnchanged(d, t, command) THEN {0}
                  ELSE IF ptr_unchanged(command) THEN {0, 1} ELSE {0, 1, 2}
           [] d.kind = "lumix" -> 0..Len(LumixTransactions(d, command))
           [] OTHER -> {0}

\* the process runs: main() has not panicked, nor returned the error of a
\* connect at startup
Serving == lastcall.res # "panic" /\ ~(lastcall.n = 1 /\ lastcall.res = "err")

\* the call returns `did`
Called(op, command, did) ==
    /\ device' = did.device
    /\ tasks' = did.tasks
    /\ lastcall' = [n |-> lastcall.n + 1, op |-> op, command |-> command, res |-> did.res, wire |-> did.wire]
    /\ UNCHANGED <<mainvars, ronin, evaluated>>

\* connect_devices, at startup
CallConnect ==
    /\ lastcall.n = 0
    /\ \E fail \in ConnectFailures(device) :
        Called("connect", NoDeviceCall.command, Connect(device, tasks, fail))

\* Operation::Disconnect
CallDisconnect ==
    /\ Serving /\ lastcall.n \in 1..(MaxCalls - 1)
    /\ \E fail \in DisconnectFailures(device) :
        Called("disconnect", NoDeviceCall.command, Disconnect(device, tasks, fail))

\* Operation::Reconnect
CallReconnect ==
    /\ Serving /\ lastcall.n \in 1..(MaxCalls - 1)
    /\ \E fail1 \in DisconnectFailures(device), fail2 \in ConnectFailures(device) :
        Called("reconnect", NoDeviceCall.command, Reconnect(device, tasks, fail1, fail2))

\* Operation::Command
CallSendCommand ==
    /\ Serving /\ lastcall.n \in 1..(MaxCalls - 1)
    /\ \E command \in DeviceCommands : \E fail \in SendFailures(device, tasks, command) :
        Called("send_command", command, SendCommand(device, tasks, command, fail))

\* create_zoom_task: a step of the task spawned k-th
RoninZoomTask(k) ==
    /\ Serving
    /\ tasks[k].of = "zoom"
    /\ \/ \* zoom_speed_rx.changed().await returns Ok: the speed is read
          /\ tasks[k].state = "waiting" /\ tasks[k].unseen
          /\ tasks' = [tasks EXCEPT ![k].unseen = FALSE,
                                    ![k].state = IF tasks[k].speed # 0 THEN "burst" ELSE "waiting"]
          /\ UNCHANGED device
       \/ \* changed() returns Err once the sender is gone: unwrap() panics
          /\ tasks[k].state = "waiting" /\ ~tasks[k].unseen /\ tasks[k].owner # "connection"
          /\ tasks' = [tasks EXCEPT ![k].state = "panicked"]
          /\ UNCHANGED device
       \/ \* a tick of the burst: at an endpoint no frame is built; else the
          \* frame takes a sequence number and is written, and a failed write
          \* panics; then the speed is read again
          /\ tasks[k].state = "burst"
          /\ \E tick \in {"endpoint", "written", "failed"} :
              LET next == IF tasks[k].speed # 0 THEN "burst" ELSE "waiting" IN
              IF tick = "endpoint"
              THEN /\ tasks' = [tasks EXCEPT ![k].unseen = FALSE, ![k].state = next]
                   /\ UNCHANGED device
              ELSE /\ tasks[k].frames < MaxFrames
                   /\ device' = [device EXCEPT !.next_seq = (@ + 1) % SeqModulus]
                   /\ tasks' = [tasks EXCEPT ![k].frames = @ + 1, ![k].unseen = FALSE,
                                             ![k].state = IF tick = "failed" THEN "panicked" ELSE next]
    /\ UNCHANGED <<mainvars, lastcall, ronin, evaluated>>

\* Lumix::connect: the event reader reads an event; abort() has ended it
LumixEventReader(k) ==
    /\ Serving
    /\ tasks[k].of = "event_reader" /\ tasks[k].state = "running"
    /\ UNCHANGED vars

\* Lanc::connect: rx.recv() gives the sender the next pair, queued before or
\* after the senders were dropped, and its burst starts; or the channel is
\* closed and empty and the task ends
LancSender(k) ==
    /\ Serving
    /\ tasks[k].of = "sender" /\ tasks[k].state = "waiting"
    /\ IF tasks[k].channel # <<>>
       THEN tasks' = [tasks EXCEPT ![k].channel = Tail(@), ![k].state = "reading",
                                   ![k].data = Head(tasks[k].channel),
                                   ![k].counter = 0, ![k].written = <<>>]
       ELSE /\ tasks[k].owner # "connection"
            /\ tasks' = [tasks EXCEPT ![k].state = "ended"]
    /\ UNCHANGED <<mainvars, device, lastcall, ronin, evaluated>>

\* what a read of the serial port meets: "frames", chunks that end in 0x0A;
\* "error", Err; "silent", nothing, the read does not return; "eof", Ok(0)
Bridge == {"frames", "error", "silent", "eof"}

\* the bridge or the port changes; a burst alone reads the port
LancBridge(k) ==
    /\ Serving
    /\ tasks[k].of = "sender" /\ tasks[k].state = "reading"
    /\ \E b \in Bridge \ {tasks[k].bridge} : tasks' = [tasks EXCEPT ![k].bridge = b]
    /\ UNCHANGED <<mainvars, device, lastcall, ronin, evaluated>>

\* one pass of `while timer.elapsed() < INTERVAL * 9 / 10`: the inner loop
\* leaves on a chunk that ends in 0x0A and on a read error, and goes round on
\* anything else; then data[counter % 2] is written and the counter grows;
\* then the timer has run out or not
LancBurst(k) ==
    /\ Serving
    /\ tasks[k].of = "sender" /\ tasks[k].state = "reading"
    /\ tasks[k].bridge \in {"frames", "error"}
    /\ \E more \in BOOLEAN :
        /\ more => tasks[k].counter + 1 < MaxWrites
        /\ tasks' = [tasks EXCEPT
                        ![k].written = Append(@, [code |-> tasks[k].data[(tasks[k].counter % 2) + 1],
                                                  heard |-> tasks[k].bridge = "frames",
                                                  owner |-> tasks[k].owner]),
                        ![k].counter = @ + 1,
                        ![k].state = IF more THEN "reading" ELSE "waiting"]
    /\ UNCHANGED <<mainvars, device, lastcall, ronin, evaluated>>

\* a Ronin that is not connected: created, or disconnected after it had
\* handed out `seq` sequence numbers.
\*   pc, call: where the caller of connect and send_command is, and the call
\*   scan, polls: the adapter scans; the polls find_peripheral has made
\*   zoom_speed, unseen: the zoom_speed watch channel and whether the zoom
\*     task has yet to see its value
\*   current_zoom, notified, moved: the level the event task published, that
\*     it has published one, and that zoom_movement is less than 200 ms old
\*     (connect stamps it before find_peripheral, which sleeps 500 ms)
\*   writing: the BLE writes in flight
\*   task: the zoom task, its locals and the frame it built last
\*   handed: the sequence numbers get_seq has handed out, and to whom
\*   written: the sequence numbers of the frames given to peripheral.write,
\*     in the order of the calls
\*   late: zoom frames written since the zoom speed was last set, while it
\*     is 0
NoRoninCall ==
    [n |-> 0, command |-> [ptr |-> FALSE, zoom |-> 0], zoom_unchanged |-> TRUE,
     res |-> "none", wire |-> <<>>, seqs |-> 0, seq |-> 0]
NoFrame == [built |-> FALSE, seq |-> 0, zoom |-> 0]
RoninCreated(seq) ==
    [pc |-> "created", call |-> NoRoninCall, scan |-> FALSE, polls |-> 0,
     connection |-> FALSE, next_seq |-> seq, zoom_speed |-> 0, unseen |-> FALSE,
     current_zoom |-> 0, notified |-> FALSE, moved |-> FALSE,
     writing |-> {},
     task |-> [pc |-> "none", speed |-> 0, prev_speed |-> 0, target_zoom |-> -1,
               frame |-> NoFrame, ticks |-> 0],
     handed |-> <<>>, written |-> <<>>, late |-> 0]

\* the device is devices[0] of the config, with any capability list
DeviceInit ==
    /\ MainInit
    /\ device \in { Created(kind[1], caps) : caps \in SUBSET Capability }
    /\ tasks = <<>>
    /\ lastcall = NoDeviceCall
    /\ ronin = RoninCreated(0)
    /\ evaluated = NotEvaluated

DeviceNext ==
    \/ CallConnect
    \/ CallDisconnect
    \/ CallReconnect
    \/ CallSendCommand
    \/ \E k \in DOMAIN tasks : RoninZoomTask(k)
    \/ \E k \in DOMAIN tasks : LumixEventReader(k)
    \/ \E k \in DOMAIN tasks : LancSender(k)
    \/ \E k \in DOMAIN tasks : LancBridge(k)
    \/ \E k \in DOMAIN tasks : LancBurst(k)

DeviceSpec == DeviceInit /\ [][DeviceNext]_vars

\* the runtime runs every sender task that can take a step; a read that meets
\* a frame or an error again and again returns
DeviceFairSpec ==
    DeviceSpec /\ \A k \in 1..MaxCalls :
                     SF_vars(k \in DOMAIN tasks /\ (LancSender(k) \/ LancBurst(k)))

\* ============================================================ one Ronin
\* RoninSpec follows one Ronin through one connection at the grain of its
\* awaits: connect with its scan, send_command, the zoom task and the event
\* task run side by side, and a BLE write is in flight between its start and
\* its return.
MaxSends == 2        \* send_command calls in one run
MaxTicks == 2        \* ticks of the zoom task in one run

ZOOM_MIN == 0
ZOOM_MAX == 4095
ZOOM_ENDPOINT_TOLERANCE == 20
ZOOM_SPEED_MIN == 3
ZOOM_SPEED_MAX == 1000
\* find_peripheral: `for _ in 0..10`
ScanPolls == 10

\* the zoom levels the gimbal reports after the 0 the channel starts with,
\* and the commands sent: ptr is "pan, tilt or roll is not 0.0", zoom in
\* hundredths
ZoomLevels == {500, 4090}
ZoomSpeeds == {-100, 0, 100}
RoninCommands == [ptr : BOOLEAN, zoom : ZoomSpeeds]

\* the Ronin takes the step to r; nothing else changes
RoninStep(r) ==
    /\ ronin' = r
    /\ UNCHANGED <<mainvars, device, tasks, lastcall, evaluated>>

\* the call returns res after the I/O `io`
Returned(call, res, io) == [call EXCEPT !.res = res, !.wire = @ \o io]

\* ---- connect
\* connect: find_peripheral calls adapter.start_scan(..).await?
ConnectStartScan ==
    /\ ronin.pc = "created"
    /\ \E ok \in BOOLEAN :
        RoninStep(IF ok
                  THEN [ronin EXCEPT !.pc = "scan", !.scan = TRUE, !.polls = 0,
                                     !.call = [NoRoninCall EXCEPT !.wire = <<"start_scan">>]]
                  ELSE [ronin EXCEPT !.pc = "failed",
                                     !.call = Returned(NoRoninCall, "err", <<"start_scan">>)])

\* find_peripheral: one poll: sleep, then peripherals() and the names;
\* `adapter.peripherals().await?` and `p.properties().await?` return their
\* error at once
ConnectPoll ==
    /\ ronin.pc = "scan" /\ ronin.polls < ScanPolls
    /\ \E poll \in {"err", "absent", "found", "found_stop_err"} :
        LET polled == [ronin EXCEPT !.polls = @ + 1, !.call.wire = Append(@, "peripherals")] IN
        RoninStep(
            CASE poll = "err" ->
                     [polled EXCEPT !.pc = "failed", !.call = Returned(@, "err", <<>>)]
              [] poll = "absent" -> polled
              \* adapter.stop_scan().await?; return Ok(p)
              [] poll = "found" ->
                     [polled EXCEPT !.pc = "handshake", !.scan = FALSE,
                                    !.call.wire = Append(@, "stop_scan")]
              [] poll = "found_stop_err" ->
                     [polled EXCEPT !.pc = "failed", !.call = Returned(@, "err", <<"stop_scan">>)])

\* find_peripheral: after the last poll, stop_scan and "unable to find
\* peripheral"
ConnectNotFound ==
    /\ ronin.pc = "scan" /\ ronin.polls = ScanPolls
    /\ \E ok \in BOOLEAN :
        RoninStep([ronin EXCEPT !.pc = "failed", !.scan = ~ok,
                                !.call = Returned(@, "err", <<"stop_scan">>)])

\* connect after find_peripheral: peripheral.connect, the two
\* characteristics, subscribe, then the tasks and the Connection
ConnectHandshake ==
    /\ ronin.pc = "handshake"
    /\ \E fail \in 0..4 :
        LET io == <<"connect", "discover", "discover", "subscribe">> IN
        RoninStep(IF fail = 0
                  THEN [ronin EXCEPT !.pc = "ready", !.connection = TRUE,
                                     !.zoom_speed = 0, !.unseen = FALSE,
                                     !.current_zoom = 0, !.notified = FALSE, !.moved = FALSE,
                                     !.task.pc = "waiting",
                                     !.call = Returned(@, "ok", io)]
                  ELSE [ronin EXCEPT !.pc = "failed",
                                     !.call = Returned(@, "err", SubSeq(io, 1, fail))])

\* ---- the environment
\* create_event_task: a zoom notification with the level z
EventTask ==
    /\ ronin.connection /\ ronin.pc # "panicked"
    /\ \E z \in ZoomLevels :
        RoninStep([ronin EXCEPT !.current_zoom = z, !.notified = TRUE,
                                !.moved = @ \/ (ronin.notified /\ ronin.current_zoom # z)])

\* 200 ms pass without a change of the zoom level
MovementAges ==
    /\ ronin.connection /\ ronin.moved /\ ronin.pc # "panicked"
    /\ RoninStep([ronin EXCEPT !.moved = FALSE])

\* ---- send_command
\* variant: the u16 stops at its greatest value
wrapping_add_Saturating(s) == IF s = SeqModulus - 1 THEN s ELSE s + 1
\* u16::wrapping_add(1)
wrapping_add(s) == (s + 1) % SeqModulus

\* get_seq: send_modify hands out the counter and advances it
get_seq(r, to) ==
    [r EXCEPT !.next_seq = wrapping_add(@),
              !.handed = Append(@, [seq |-> r.next_seq, to |-> to])]

\* variant: the peripheral is connected before it is disconnected
ResumeSteps_ConnectFirst ==
    <<"is_connected", "connect", "disconnect", "discover", "discover", "subscribe">>
\* try_resume_connection: the I/O it makes when the link is down, in order,
\* and the steps taken to fail: the connect that times out, subscribe
ResumeSteps == <<"is_connected", "disconnect", "connect", "discover", "discover", "subscribe">>
ResumeFailures == {3, 6}

\* try_resume_connection: is_connected() finds the link up or down; fail = 0,
\* or the step whose error `?` returns
try_resume_connection(up, fail) ==
    LET io == IF up THEN <<"is_connected">> ELSE ResumeSteps
    IN  IF fail = 0 THEN io ELSE SubSeq(io, 1, fail)

\* `if !zoom_unchanged { c.zoom_speed.send_replace(command.zoom) }`; Ok(())
send_replace(r) ==
    IF r.call.zoom_unchanged
    THEN [r EXCEPT !.pc = "ready", !.call.res = "ok"]
    ELSE [r EXCEPT !.pc = "ready", !.call.res = "ok",
                   !.zoom_speed = r.call.command.zoom, !.unseen = TRUE, !.late = 0]

\* send_command is called. The idle command returns at once; any other goes
\* through c.try_resume_connection(&name).await? and, with it done, either
\* takes the seq of its PTR packet or, with no PTR to send, sets the zoom
\* speed and returns
SendBegin ==
    /\ ronin.pc = "ready" /\ ronin.call.n < MaxSends
    /\ \E command \in RoninCommands : \E up \in BOOLEAN :
       \E fail \in {0} \cup (IF up THEN {} ELSE ResumeFailures) :
        LET unchanged == command.zoom = 0 /\ ronin.zoom_speed = 0
            call == [n |-> ronin.call.n + 1, command |-> command, zoom_unchanged |-> unchanged,
                     res |-> "running", wire |-> <<>>, seqs |-> 0, seq |-> 0]
            resumed == [ronin EXCEPT !.call = [call EXCEPT !.wire = try_resume_connection(up, 0)]]
        IN  RoninStep(
                CASE ptr_unchanged(command) /\ unchanged ->
                         [ronin EXCEPT !.call = [call EXCEPT !.res = "ok"]]
                  [] fail # 0 ->
                         [ronin EXCEPT
                             !.call = Returned(call, "err", try_resume_connection(up, fail))]
                  [] ptr_unchanged(command) -> send_replace(resumed)
                  \* create_packet(get_seq(&self.next_seq), ..)
                  [] OTHER ->
                         [get_seq(resumed, "ptr") EXCEPT !.pc = "write", !.call.seqs = @ + 1,
                                                         !.call.seq = ronin.next_seq])

\* c.characteristic.lock().unwrap().clone() takes the lock for the clone:
\* the guard is dropped at the end of the statement; then
\* c.peripheral.write(..) starts
SendWrite ==
    /\ ronin.pc = "write"
    /\ RoninStep([ronin EXCEPT !.pc = "writing",
                               !.writing = @ \cup {"ptr"}, !.call.wire = Append(@, "write"),
                               !.written = Append(@, ronin.call.seq)])

\* .await.unwrap(): the write returns, and its error panics; then the zoom
\* speed is set and Ok(()) returned
SendWritten ==
    /\ ronin.pc = "writing"
    /\ \E ok \in BOOLEAN :
        RoninStep(IF ok
                  THEN send_replace([ronin EXCEPT !.writing = @ \ {"ptr"}])
                  ELSE [ronin EXCEPT !.pc = "panicked", !.writing = @ \ {"ptr"},
                                     !.call.res = "panic"])

\* ---- the zoom task
\* scale_zoom_value, of a speed in hundredths: 1000 * |val|^2.5 is the square
\* root of val^5 / 10^4, kept within [ZOOM_SPEED_MIN, ZOOM_SPEED_MAX], cut to
\* an integer and given the sign of val
scale_zoom_value(val) ==
    LET abs == IF val < 0 THEN -val ELSE val
        fourth == abs * abs * abs * abs
        radicand == ((fourth \div 10000) * abs) + (((fourth % 10000) * abs) \div 10000)
        root == CHOOSE n \in 0..ZOOM_SPEED_MAX :
                    n * n <= radicand /\ (n = ZOOM_SPEED_MAX \/ (n + 1) * (n + 1) > radicand)
        clamped == IF root < ZOOM_SPEED_MIN THEN ZOOM_SPEED_MIN ELSE root
    IN  IF val < 0 THEN -clamped ELSE clamped

\* let increment = scale_zoom_value(speed), for the speeds sent
increment == [speed \in ZoomSpeeds |-> scale_zoom_value(speed)]

\* variant: the target always grows by the increment
target_zoom_Drifting(task, curr_zoom, moved) ==
    IF task.prev_speed = 0 \/ (task.prev_speed > 0) # (task.speed > 0)
    THEN curr_zoom + increment[task.speed]
    ELSE task.target_zoom + increment[task.speed]
\* the target of a tick
target_zoom(task, curr_zoom, moved) ==
    IF task.prev_speed = 0 \/ (task.prev_speed > 0) # (task.speed > 0)
    THEN curr_zoom + increment[task.speed]
    ELSE IF moved THEN task.target_zoom + increment[task.speed]
    ELSE task.target_zoom

\* target_zoom.clamp(ZOOM_MIN as i32, ZOOM_MAX as i32) as u16
clamped_target_zoom(target) ==
    IF target < ZOOM_MIN THEN ZOOM_MIN ELSE IF target > ZOOM_MAX THEN ZOOM_MAX ELSE target

\* variant: the endpoint test looks at the target alone
at_endpoint_OfTarget(clamped, curr_zoom) ==
    \/ clamped < ZOOM_MIN + ZOOM_ENDPOINT_TOLERANCE
    \/ clamped > ZOOM_MAX - ZOOM_ENDPOINT_TOLERANCE
\* at_min_endpoint || at_max_endpoint
at_endpoint(clamped, curr_zoom) ==
    \/ clamped <= curr_zoom /\ curr_zoom < ZOOM_MIN + ZOOM_ENDPOINT_TOLERANCE
    \/ clamped >= curr_zoom /\ curr_zoom > ZOOM_MAX - ZOOM_ENDPOINT_TOLERANCE

\* one pass of the while loop, up to its await, of a task that has read the
\* speed: the target, the endpoint test and, unless at an endpoint,
\* add_checksum(.. get_seq(&next_seq) ..); a speed of 0.0 ends the burst
tick(r) ==
    LET target == target_zoom(r.task, r.current_zoom, r.moved)
        clamped == clamped_target_zoom(target)
        ticked == [r EXCEPT !.task.target_zoom = target, !.task.ticks = @ + 1]
    IN  CASE r.task.speed = 0 -> [r EXCEPT !.task.pc = "waiting"]
          [] at_endpoint(clamped, r.current_zoom) -> [ticked EXCEPT !.task.pc = "sleep"]
          [] OTHER ->
                 [get_seq(ticked, "zoom") EXCEPT
                     !.task.pc = "write",
                     !.task.frame = [built |-> TRUE, seq |-> r.next_seq, zoom |-> clamped]]

\* zoom_speed_rx.changed().await returns; borrow_and_update reads the speed
\* and the while loop is entered
TaskWakes ==
    /\ ronin.task.pc = "waiting" /\ ronin.unseen
    /\ ronin.zoom_speed # 0 => ronin.task.ticks < MaxTicks
    /\ RoninStep(tick([ronin EXCEPT !.unseen = FALSE,
                                    !.task.speed = ronin.zoom_speed, !.task.prev_speed = 0,
                                    !.task.target_zoom = -1]))

\* cmd_characteristic.lock().unwrap().clone() takes the lock for the clone
\* and drops it; peripheral.write(..) starts
TaskWrite ==
    /\ ronin.task.pc = "write"
    /\ RoninStep([ronin EXCEPT !.task.pc = "writing", !.writing = @ \cup {"zoom"},
                               !.written = Append(@, ronin.task.frame.seq),
                               !.late = IF ronin.zoom_speed = 0 THEN @ + 1 ELSE @])

\* .await.unwrap(): the write returns; its error panics the task
TaskWritten ==
    /\ ronin.task.pc = "writing"
    /\ \E ok \in BOOLEAN :
        RoninStep([ronin EXCEPT !.writing = @ \ {"zoom"},
                                !.task.pc = IF ok THEN "sleep" ELSE "panicked"])

\* sleep(50 ms) is over; prev_speed = speed; speed = *borrow_and_update();
\* the while loop goes round
TaskSleeps ==
    /\ ronin.task.pc = "sleep"
    /\ ronin.zoom_speed # 0 => ronin.task.ticks < MaxTicks
    /\ RoninStep(tick([ronin EXCEPT !.unseen = FALSE, !.task.frame = NoFrame,
                                    !.task.prev_speed = ronin.task.speed,
                                    !.task.speed = ronin.zoom_speed]))

\* the steps of the zoom task
ZoomTaskNext ==
    \/ TaskWakes
    \/ TaskWrite
    \/ TaskWritten
    \/ TaskSleeps

\* the Ronin is devices[0] of the config; it is not connected, and has handed
\* out SeqModulus - 2 sequence numbers in the connections it had
RoninInit ==
    /\ MainInit
    /\ kind[1] = "ronin"
    /\ device = Created(kind[1], Capability)
    /\ tasks = <<>>
    /\ lastcall = NoDeviceCall
    /\ ronin = RoninCreated(SeqModulus - 2)
    /\ evaluated = NotEvaluated

RoninNext ==
    \/ ConnectStartScan
    \/ ConnectPoll
    \/ ConnectNotFound
    \/ ConnectHandshake
    \/ EventTask
    \/ MovementAges
    \/ SendBegin
    \/ SendWrite
    \/ SendWritten
    \/ ZoomTaskNext

RoninSpec == RoninInit /\ [][RoninNext]_vars

\* the runtime runs a task that can take a step
RoninFairSpec == RoninSpec /\ WF_vars(ZoomTaskNext)

\* ============================================================ functions
\* The pure functions of the drivers and of the config, each applied to
\* inputs drawn from bounded sets; `evaluated` holds the last application.

\* at most this many groups in a config, and devices in a group
MaxGroups == 3
MaxGroupDevices == 1
\* at most this many bytes in a drawn payload, and chars in a drawn string
MaxPayload == 3
MaxChars == 3

\* `^` on unsigned integers
Xor(a, b) ==
    LET xor[m \in Nat, n \in Nat] ==
            IF m = 0 THEN n ELSE IF n = 0 THEN m
            ELSE ((m + n) % 2) + 2 * xor[m \div 2, n \div 2]
    IN  xor[a, b]

\* u16::reverse_bits (n = 16)
reverse_bits(x, n) ==
    LET rev[y \in Nat, m \in 0..n] ==
            IF m = 0 THEN 0 ELSE ((y % 2) * 2^(m - 1)) + rev[y \div 2, m - 1]
    IN  rev[x, n]

\* u16::to_le_bytes
to_le_bytes(x) == <<x % 256, x \div 256>>

\* ronin.rs CUSTOM_ALG
RoninAlg == [width |-> 16, poly |-> 4129, init |-> 18796, refin |-> TRUE, refout |-> TRUE, xorout |-> 0]
\* crane.rs CUSTOM_ALG
CraneAlg == [width |-> 16, poly |-> 4129, init |-> 0, refin |-> FALSE, refout |-> FALSE, xorout |-> 9649]

\* variant: the register starts at init as written, also when reflected
crc_init_Unreflected(alg) == alg.init
\* crc::Crc<u16>: the initial register, reflected for a reflected algorithm
crc_init(alg) == IF alg.refin THEN reverse_bits(alg.init, 16) ELSE alg.init

\* n shifts of the register: to the right with the reflected polynomial for
\* a reflected algorithm, to the left with the polynomial otherwise
crc_shift(alg, crc, n) ==
    LET shift[c \in 0..65535, m \in 0..n] ==
            IF m = 0 THEN c
            ELSE IF alg.refin
            THEN shift[IF c % 2 = 1 THEN Xor(c \div 2, reverse_bits(alg.poly, 16)) ELSE c \div 2, m - 1]
            ELSE shift[IF c >= 32768 THEN Xor((c * 2) % 65536, alg.poly) ELSE c * 2, m - 1]
    IN  shift[crc, n]

\* crc::Crc<u16>::update
crc_update(alg, crc, bytes) ==
    LET reg[k \in 0..Len(bytes)] ==
            IF k = 0 THEN crc
            ELSE crc_shift(alg, Xor(reg[k - 1], IF alg.refin THEN bytes[k] ELSE bytes[k] * 256), 8)
    IN  reg[Len(bytes)]

\* crc::Crc<u16>::finalize
crc_finalize(alg, crc) ==
    Xor(IF alg.refin # alg.refout THEN reverse_bits(crc, 16) ELSE crc, alg.xorout)

\* CRC.checksum(b)
checksum(alg, b) == crc_finalize(alg, crc_update(alg, crc_init(alg), b))

\* add_checksum of ronin.rs (alg = RoninAlg) and of crane.rs (alg = CraneAlg)
add_checksum(alg, b) == b \o to_le_bytes(checksum(alg, b))

\* ronin.rs test_checksum: 5511049202df200200042f0b0001c5 and its frame
RoninPayload == <<85, 17, 4, 146, 2, 223, 32, 2, 0, 4, 47, 11, 0, 1, 197>>
RoninFrame == RoninPayload \o <<245, 167>>

\* crane.rs test_checksum: the recorded frames, 12 bytes and their checksum
CraneFrames ==
    {
      <<36, 60, 8, 0, 24, 18, 40, 1, 1, 16, 0, 8, 50, 82>>,
      <<36, 60, 8, 0, 24, 18, 41, 1, 2, 16, 0, 8, 78, 140>>,
      <<36, 60, 8, 0, 24, 18, 42, 1, 3, 16, 212, 14, 63, 141>>,
      <<36, 60, 8, 0, 24, 18, 43, 1, 1, 16, 0, 8, 210, 156>>,
      <<36, 60, 8, 0, 24, 18, 44, 1, 2, 16, 0, 8, 79, 207>>,
      <<36, 60, 8, 0, 24, 18, 45, 1, 3, 16, 212, 14, 126, 69>>,
      <<36, 60, 8, 0, 24, 18, 46, 1, 1, 16, 0, 8, 211, 223>>,
      <<36, 60, 8, 0, 24, 18, 47, 1, 2, 16, 0, 8, 175, 1>>,
      <<36, 60, 8, 0, 24, 18, 48, 1, 3, 16, 212, 14, 185, 17>>,
      <<36, 60, 8, 0, 24, 18, 49, 1, 1, 16, 44, 1, 246, 210>>,
      <<36, 60, 8, 0, 24, 18, 50, 1, 2, 16, 0, 8, 104, 85>>,
      <<36, 60, 8, 0, 24, 18, 51, 1, 3, 16, 212, 14, 89, 223>>,
      <<36, 60, 8, 0, 24, 18, 52, 1, 1, 16, 0, 8, 85, 67>>,
      <<36, 60, 8, 0, 24, 18, 53, 1, 2, 16, 0, 8, 41, 157>>,
      <<36, 60, 8, 0, 24, 18, 54, 1, 3, 16, 44, 1, 223, 247>>,
      <<36, 60, 8, 0, 24, 18, 55, 1, 1, 16, 0, 8, 181, 141>>,
      <<36, 60, 8, 0, 24, 18, 56, 1, 2, 16, 0, 8, 106, 211>>,
      <<36, 60, 8, 0, 24, 18, 57, 1, 3, 16, 44, 1, 220, 50>>,
      <<36, 60, 8, 0, 24, 18, 58, 1, 1, 16, 0, 8, 246, 195>>,
      <<36, 60, 8, 0, 24, 18, 59, 1, 2, 16, 0, 8, 138, 29>>,
      <<36, 60, 8, 0, 24, 18, 60, 1, 3, 16, 44, 1, 221, 113>>,
      <<36, 60, 8, 0, 24, 18, 61, 1, 1, 16, 0, 8, 183, 11>>,
      <<36, 60, 8, 0, 24, 18, 62, 1, 2, 16, 0, 8, 139, 94>>,
      <<36, 60, 8, 0, 24, 18, 63, 1, 3, 16, 44, 1, 61, 191>>,
      <<36, 60, 8, 0, 24, 18, 64, 1, 1, 16, 0, 8, 104, 0>>,
      <<36, 60, 8, 0, 24, 18, 65, 1, 2, 16, 0, 8, 20, 222>>,
      <<36, 60, 8, 0, 24, 18, 66, 1, 3, 16, 44, 1, 226, 180>>,
      <<36, 60, 8, 0, 24, 18, 67, 1, 1, 16, 0, 8, 136, 206>>,
      <<36, 60, 8, 0, 24, 18, 68, 1, 2, 16, 0, 8, 21, 157>>
    }

\* the payloads drawn: the recorded ones and the short ones over five bytes
Payloads(recorded) ==
    recorded \cup UNION { [1..n -> {0, 1, 85, 128, 255}] : n \in 0..MaxPayload }

\* variant: every char becomes one unit
encode_utf16_OneUnit(s) == [k \in DOMAIN s |-> s[k] % 65536]
\* str::encode_utf16 of a string given as its chars (Unicode scalar values):
\* one unit below U+10000, else a high and a low surrogate
encode_utf16(s) ==
    LET units[k \in 0..Len(s)] ==
            IF k = 0 THEN <<>>
            ELSE units[k - 1] \o
                 (IF s[k] < 65536 THEN <<s[k]>>
                  ELSE <<55296 + ((s[k] - 65536) \div 1024), 56320 + ((s[k] - 65536) % 1024)>>)
    IN  units[Len(s)]

\* as_utf16.iter().flat_map(|x| x.to_le_bytes())
flat_to_le_bytes(as_utf16) ==
    LET bytes[k \in 0..Len(as_utf16)] ==
            IF k = 0 THEN <<>> ELSE bytes[k - 1] \o to_le_bytes(as_utf16[k])
    IN  bytes[Len(as_utf16)]

\* lumix.rs encode_str
encode_str(s) == flat_to_le_bytes(Append(encode_utf16(s), 0))

\* lumix.rs test_encode_str: "LUMIXTether"
LumixTether == <<76, 85, 77, 73, 88, 84, 101, 116, 104, 101, 114>>
\* the strings drawn, over NUL, L, e acute, the euro sign and U+1F600
Strings == {LumixTether} \cup UNION { [1..n -> {0, 76, 233, 8364, 128512}] : n \in 0..MaxChars }

\* the configs a file can hold: groups of a name and device ids, and the keys
\* of devices
Groups ==
    [name : {"group1", "group2"},
     devices : UNION { [1..n -> {"device1", "device2"}] : n \in 0..MaxGroupDevices }]
ParsedConfigs ==
    [groups : UNION { [1..n -> Groups] : n \in 0..MaxGroups }, devices : SUBSET {"device1", "device3"}]
\* the file at the config path: absent, no JSON of a Config, or a config
ConfigFiles ==
    [content : {"config"}, config : ParsedConfigs]
        \cup [content : {"missing", "malformed"}, config : {[groups |-> <<>>, devices |-> {}]}]

\* variant: only a name equal to the one just before it is a duplicate
duplicates_Adjacent(names) == { names[j] : j \in { j \in DOMAIN names : j > 1 /\ names[j - 1] = names[j] } }
\* itertools duplicates(): the names that occur a second time
duplicates(names) ==
    { names[j] : j \in { j \in DOMAIN names : \E i \in 1..(j - 1) : names[i] = names[j] } }

check_duplicate_group_names(config) ==
    LET dupes == duplicates([k \in DOMAIN config.groups |-> config.groups[k].name])
    IN  IF dupes # {} THEN "Err" ELSE "Ok"

detect_undefined_devices(config) ==
    LET device_ids == config.devices
        used_ids == UNION { { config.groups[g].devices[k] : k \in DOMAIN config.groups[g].devices }
                            : g \in DOMAIN config.groups }
        undefined_ids == used_ids \ device_ids
    IN  IF undefined_ids # {} THEN "Err" ELSE "Ok"

\* load_config: read_to_string?, from_str?, the two checks
load_config(path) ==
    IF path.content = "missing" THEN "Err"
    ELSE IF path.content = "malformed" THEN "Err"
    ELSE IF check_duplicate_group_names(path.config) = "Err" THEN "Err"
    ELSE IF detect_undefined_devices(path.config) = "Err" THEN "Err"
    ELSE "Ok"

\* the record of one application
Evaluated(function, input, output) == [function |-> function, input |-> input, output |-> output]

\* each behaviour applies one function once
EvaluateLoadConfig ==
    /\ evaluated = NotEvaluated
    /\ \E path \in ConfigFiles : evaluated' = Evaluated("load_config", path, load_config(path))
    /\ UNCHANGED <<mainvars, device, tasks, lastcall, ronin>>

EvaluateRoninChecksum ==
    /\ evaluated = NotEvaluated
    /\ \E b \in Payloads({RoninPayload}) :
          evaluated' = Evaluated("ronin::add_checksum", b, add_checksum(RoninAlg, b))
    /\ UNCHANGED <<mainvars, device, tasks, lastcall, ronin>>

EvaluateCraneChecksum ==
    /\ evaluated = NotEvaluated
    /\ \E b \in Payloads({ SubSeq(v, 1, 12) : v \in CraneFrames }) :
          evaluated' = Evaluated("crane::add_checksum", b, add_checksum(CraneAlg, b))
    /\ UNCHANGED <<mainvars, device, tasks, lastcall, ronin>>

EvaluateEncodeStr ==
    /\ evaluated = NotEvaluated
    /\ \E s \in Strings : evaluated' = Evaluated("encode_str", s, encode_str(s))
    /\ UNCHANGED <<mainvars, device, tasks, lastcall, ronin>>

\* zoom values in 1/100000, around the thresholds of handle_zoom and around
\* 0.0
ZoomValues == {-100000, -75001, -75000, -10, -5, 0, 5, 10, 75000, 75001, 100000}

\* handle_zoom: dir and speed, for a zoom value and the curr_dir
EvaluateHandleZoom ==
    /\ evaluated = NotEvaluated
    /\ \E zoom \in ZoomValues : \E dir \in {"Wide", "Tele"} :
          evaluated' = Evaluated("handle_zoom", <<zoom, dir>>,
                                 <<ZoomDir([curr_dir |-> dir], zoom), ZoomSpeedIn(zoom, 100000)>>)
    /\ UNCHANGED <<mainvars, device, tasks, lastcall, ronin>>

FunctionNext ==
    \/ EvaluateHandleZoom
    \/ EvaluateLoadConfig
    \/ EvaluateRoninChecksum
    \/ EvaluateCraneChecksum
    \/ EvaluateEncodeStr

\* ------------------------------------------------------------ specification
Init ==
    /\ MainInit
    /\ device = Created(kind[1], Capability)
    /\ tasks = <<>>
    /\ lastcall = NoDeviceCall
    /\ ronin = RoninCreated(0)
    /\ evaluated = NotEvaluated

Next ==
    \/ ConnectNext
    \/ \E i \in Dev : ConnectReturns(i)
    \/ StartupDone
    \/ DisconnectDevicesNext
    \/ \E i \in Dev : DisconnectReturns(i)
    \/ UnwindDone
    \/ WebServerBinds
    \/ ClientRequest
    \/ ShutdownSignal
    \/ Recv
    \/ QueueClosed
    \/ CommandFanOut
    \/ \E i \in Dev : SendCommandReturns(i)
    \/ CommandDone
    \/ DisconnectNext
    \/ ReconnectNext
    \/ \E i \in Dev : ReconnectDisconnectReturns(i)
    \/ \E i \in Dev : ReconnectConnectReturns(i)
    \/ PublishDevices
    \/ ShutdownPublish
    \/ ShutdownDone
    \/ SaveDefaultControls
    \/ \E i \in Dev : ZoomTaskWakes(i)
    \/ \E i \in Dev : ZoomTaskTick(i)

Spec == Init /\ [][Next]_vars

\* the functions alone, from the same start
FunctionSpec == Init /\ [][FunctionNext]_vars


\* ================================================================ claims
Exited == {"exited_ok", "exited_err"}
AddressedSet(ids) == { i \in Dev : DeviceId(i) \in Range(ids) }
\* the device whose connect failed at startup, if any
FailedAtStartup == { f \in Dev : last[f].call = "connect" /\ last[f].res = "err" }

\* C1: at startup the devices are connected one at a time in order; when a
\* connect fails no later device is connected, disconnect is called on
\* every device that had connected (and on no other), and main() exits with
\* the error having published no snapshot and never entered the loop.
C1_StartupUnwinding ==
    /\ cur.type = "Startup" /\ pc \in {"connect_devices", "unwind", "exited_err"} =>
        /\ Cardinality(Running) <= 1
        /\ \A i \in Dev : calls[i].connect <= 1
        /\ \A i, j \in Dev : i < j /\ calls[j].connect = 1 =>
               calls[i].connect = 1 /\ (last[i].call = "connect" => last[i].res = "ok")
        /\ snapshot = NoSnapshot /\ version = 0 /\ web = "unspawned" /\ queue = <<>>
    /\ cur.type = "Startup" /\ FailedAtStartup # {} =>
        /\ pc \in {"unwind", "exited_err"}
        /\ \A f \in FailedAtStartup : \A j \in Dev :
               j > f => calls[j].connect = 0 /\ calls[j].disconnect = 0
    /\ cur.type = "Startup" /\ pc = "exited_err" =>
        \E f \in FailedAtStartup : \A i \in Dev :
            /\ i < f => calls[i].connect = 1 /\ calls[i].disconnect = 1
            /\ i >= f => calls[i].disconnect = 0

C1_Witness ==
    /\ pc = "exited_err"
    /\ cur.type = "Startup"
    /\ NumDevices \in FailedAtStartup
    /\ \A i \in Dev : i < NumDevices => calls[i].disconnect = 1

\* C2: in a Command every device whose id is in request.devices gets exactly
\* one send_command call, carrying the request's command, also when its id
\* is listed twice; every other device gets none; unknown ids are ignored.
C2_CommandFanOut ==
    cur.type = "Command" /\ pc \in {"join_all", "recv", "panicked"} =>
        \A i \in Dev :
            /\ calls[i].connect = 0 /\ calls[i].disconnect = 0 /\ calls[i].reconnect = 0
            /\ IF i \in AddressedSet(cur.devices)
               THEN calls[i].send_command = 1 /\ calls[i].commands = {cur.command}
               ELSE calls[i].send_command = 0 /\ calls[i].commands = {}

C2_Witness ==
    /\ cur.type = "Command"
    /\ pc = "recv"
    /\ Len(cur.devices) = 2
    /\ cur.devices[1] = cur.devices[2]
    /\ cur.devices[1] \in Dev
    /\ calls[cur.devices[1]].send_command = 1

\* C3: when send_command fails on one device of a Command, no other device's
\* send_command is abandoned and the dispatcher goes on to the next operation.
C3_ErrorIsolation ==
    \A i \in Dev : last[i].call = "send_command" /\ last[i].res \in {"err", "panic"} =>
        /\ pc # "panicked"
        /\ \A j \in Dev : last[j].res # "dropped"

\* C4: a failing device I/O operation never panics: neither the dispatcher (in
\* send_command) nor a device's background task (the Ronin zoom task).
C4_NoPanicOnIoFailure ==
    /\ pc # "panicked"
    /\ \A i \in Dev : zoom_task[i] # "panicked"


\* the snapshot agrees with the devices while main() waits in recv()
C5_StatusAccurate ==
    pc = "recv" =>
        /\ snapshot.published
        /\ DOMAIN snapshot.devices = Dev
        /\ \A i \in Dev :
               /\ snapshot.devices[i].id = DeviceId(i)
               /\ snapshot.devices[i].connected = connected[i]

\* a step of the send_command futures leaves every connection handle alone
C5_SendKeepsHandle == pc = "join_all" => connected' = connected

\* C5: whenever the dispatcher waits for the next operation, the published
\* snapshot has one entry per device and each entry's `connected` is that
\* device's is_connected(); no send_command changes is_connected().
C5_PublishedConnectivity == []C5_StatusAccurate /\ [][C5_SendKeepsHandle]_vars

C5_Witness ==
    /\ pc = "recv"
    /\ cur.type = "Command"
    /\ \E i, j \in Dev :
        /\ last[i].call = "send_command" /\ last[i].res = "err" /\ connected[i]
        /\ ~connected[j]

\* a step of the Command arm leaves the state channel alone
C6_CommandStep == pc \in {"Command", "join_all"} => snapshot' = snapshot /\ version' = version

\* C6: handling a Command publishes nothing: the snapshot and the channel's
\* version are the same before and after, whatever the drivers return.
C6_CommandPublishesNothing == [][C6_CommandStep]_vars

C6_Witness ==
    /\ pc = "recv"
    /\ cur.type = "Command"
    /\ pubs = 0
    /\ version = 1
    /\ \E i \in Dev : last[i].call = "send_command" /\ last[i].res = "err"
    /\ \E i \in Dev : last[i].call = "send_command" /\ last[i].res = "ok" /\ last[i].io

\* C7: Disconnect and Reconnect visit the addressed devices one after another
\* in device order, an error on one does not stop the others, and exactly one
\* snapshot, with the refreshed device status, is published after the last.
C7_SequentialThenPublish ==
    /\ pc \in {"Disconnect", "Reconnect"} =>
        /\ Cardinality(Running) <= 1
        /\ pubs = 0
        /\ \A i \in AddressedSet(cur.devices) :
               /\ calls[i].disconnect = (IF i \in Range(todo) THEN 0 ELSE 1)
               /\ i \in Range(todo) => \A j \in Running : j < i
        /\ \A k \in DOMAIN todo : \A m \in DOMAIN todo : k < m => todo[k] < todo[m]
    /\ pc = "recv" /\ cur.type \in {"Disconnect", "Reconnect"} =>
        /\ pubs = 1
        /\ snapshot.groups = ConfigGroups
        /\ snapshot.devices = get_device_status
        /\ \A i \in Dev :
               /\ calls[i].send_command = 0
               /\ calls[i].disconnect = (IF i \in AddressedSet(cur.devices) THEN 1 ELSE 0)
               /\ calls[i].reconnect =
                      (IF i \in AddressedSet(cur.devices) /\ cur.type = "Reconnect" THEN 1 ELSE 0)
               /\ cur.type = "Disconnect" => calls[i].connect = 0
               /\ last[i].res \in {"none", "ok", "err"}

C7_Witness ==
    /\ pc = "recv"
    /\ cur.type = "Disconnect"
    /\ pubs = 1
    /\ \E i, j \in Dev :
        /\ i < j
        /\ last[i].call = "disconnect" /\ last[i].res = "err" /\ connected[i]
        /\ last[j].call = "disconnect" /\ last[j].res = "ok" /\ last[j].conn_before
        /\ ~snapshot.devices[j].connected

\* the order of the Shutdown arm: publish, then disconnect_devices, then exit
C8_ShutdownState ==
    /\ pc = "Shutdown" => \A i \in Dev : calls[i].disconnect = 0
    /\ pc \in {"shutdown_disconnect", "exited_ok"} /\ cur.type = "Shutdown" =>
        /\ pubs = 1
        /\ snapshot.groups = <<>>
        /\ snapshot.devices = <<>>
        /\ snapshot.instance = Instance
        /\ Cardinality(Running) <= 1
        /\ \A i \in Dev : calls[i].disconnect = 1 => last[i].conn_before
    /\ pc = "exited_ok" /\ cur.type = "Shutdown" =>
        \A i \in Dev : calls[i].disconnect <= 1 /\ (connected[i] => calls[i].disconnect = 1)

\* once Shutdown is received nothing else is taken from the queue
C8_ShutdownStep == cur.type = "Shutdown" => cur' = cur /\ Len(queue') >= Len(queue) /\ pc' # "recv"

\* C8: Shutdown first publishes a snapshot with empty groups and devices and
\* the same instance, then calls disconnect on every connected device (and
\* on no other), then leaves the loop; nothing queued behind it is handled.
C8_Shutdown == []C8_ShutdownState /\ [][C8_ShutdownStep]_vars

C8_Witness ==
    /\ pc = "exited_ok"
    /\ cur.type = "Shutdown"
    /\ queue # <<>>
    /\ \E i, j \in Dev : calls[i].disconnect = 1 /\ calls[j].disconnect = 0

\* C9: on every path by which main() ends, disconnect has been called on
\* every device that is connected.
C9_DisconnectBeforeExit ==
    pc \in Exited => \A i \in Dev : connected[i] => calls[i].disconnect >= 1

C11_ReconnectOrder ==
    \A i \in Dev : last[i].call = "reconnect" =>
        /\ calls[i].reconnect = 1 /\ calls[i].disconnect = 1 /\ calls[i].connect <= 1
        /\ last[i].phase = "disconnect" => calls[i].connect = 0
        /\ last[i].phase = "disconnect" /\ last[i].res # "running" =>
               last[i].res = "err" /\ last[i].inner = "err"
        /\ last[i].phase = "connect" => calls[i].connect = 1 /\ last[i].inner = "ok"
        /\ last[i].phase = "connect" /\ last[i].res = "running" => ~connected[i]
        /\ last[i].phase = "connect" /\ last[i].res = "err" => ~connected[i]
        /\ last[i].res = "ok" => last[i].phase = "connect" /\ connected[i]

C11_Witness ==
    /\ pc = "recv"
    /\ cur.type = "Reconnect"
    /\ \E i, j \in Dev :
        /\ last[i].call = "reconnect" /\ last[i].conn_before
        /\ last[i].phase = "disconnect" /\ last[i].res = "err" /\ calls[i].connect = 0
        /\ last[j].call = "reconnect" /\ last[j].conn_before
        /\ last[j].phase = "connect" /\ last[j].res = "err" /\ ~connected[j]

\* at most one call is in progress on a device, none while main() waits in
\* recv(), and what is queued was sent after what is being handled
C13_Serialised ==
    /\ \A i \in Dev :
           /\ calls[i].open <= 1
           /\ i \in Running => calls[i].open = 1
           /\ calls[i].commands \subseteq {cur.command}
    /\ pc = "recv" => Running = {} /\ \A i \in Dev : calls[i].open = 0
    /\ \A k \in DOMAIN queue :
           /\ queue[k].n > cur.seq
           /\ k > 1 => queue[k].n = queue[k - 1].n + 1

\* the operation handled changes only by receiving the oldest queued message
C13_NextInOrder ==
    cur' # cur =>
        /\ pc = "recv" /\ Running = {}
        /\ queue # <<>>
        /\ cur'.seq = queue[1].n /\ cur'.seq = cur.seq + 1
        /\ Len(queue') = Len(queue) - 1
        /\ \A i \in Dev : calls'[i].open = 0

\* C13: operations are handled in the order they were queued and each to
\* completion: no device ever has two driver calls in progress, no call is in
\* progress when the next operation is received, and every send_command a
\* device gets carries the command of the operation being handled.
C13_PerDeviceSerialisation == []C13_Serialised /\ [][C13_NextInOrder]_vars

C13_Witness ==
    /\ pc = "join_all"
    /\ cur.seq = 2
    /\ queue # <<>>
    /\ \E i, j \in Dev : i # j /\ calls[i].open = 1 /\ calls[j].open = 0 /\ calls[j].send_command = 1

\* every input list of the Mappings is absent or empty
AllAbsentOrEmpty(m) == \A f \in MappingsFields : m[f] \in {None, Some(<<>>)}
\* the list an Option<Vec<Mappings>> holds
Stored(option) == IF option = None THEN <<>> ELSE option[1]

\* a successful SaveDefaultControls: what is stored, saved and published
C16_SaveStep ==
    pc = "SaveDefaultControls" /\ pc' = "recv" =>
        LET l == cur.controls
            r == Stored(default_controls')
        IN  /\ Len(r) <= Len(l)
            /\ \A k \in 1..Len(r) : r[k] = l[k]
            /\ \A k \in (Len(r) + 1)..Len(l) : AllAbsentOrEmpty(l[k])
            /\ r # <<>> => ~AllAbsentOrEmpty(r[Len(r)])
            /\ default_controls' = (IF r = <<>> THEN None ELSE Some(r))
            /\ file' = [res |-> "ok", complete |-> TRUE, default_controls |-> default_controls']
            /\ snapshot' = [snapshot EXCEPT !.default_controls = default_controls']
            /\ snapshot'.groups = snapshot.groups /\ snapshot'.devices = snapshot.devices
            /\ snapshot'.instance = snapshot.instance
            /\ version' = version + 1 /\ pubs' = 1

\* C16: SaveDefaultControls(list) stores the list cut after its last
\* non-empty Mappings (interior empty ones kept, trailing ones removed), None
\* when there is none, saves the config with it, and publishes one snapshot
\* that differs from the previous one in default_controls only.
C16_SaveDefaultControls == [][C16_SaveStep]_vars

C16_Witness ==
    /\ pc = "recv"
    /\ cur.type = "SaveDefaultControls"
    /\ Len(cur.controls) = 4
    /\ default_controls # None
    /\ Len(default_controls[1]) = 3
    /\ AllAbsentOrEmpty(default_controls[1][2])
    /\ snapshot.default_controls = default_controls
    /\ file.res = "ok" /\ file.default_controls = default_controls

\* after a failed save main() has returned the error, with nothing published
\* for the operation
C17_SaveFailed ==
    file.res = "err" =>
        /\ pc = "exited_err"
        /\ cur.type = "SaveDefaultControls"
        /\ pubs = 0
        /\ Running = {}

\* the step of the failing save publishes nothing, and after it nothing is
\* received or published
C17_SaveFailedStep ==
    file'.res = "err" =>
        /\ snapshot' = snapshot /\ version' = version
        /\ file.res = "err" => cur' = cur /\ Len(queue') >= Len(queue)

\* C17: when save_config fails in SaveDefaultControls, main() ends with the
\* error: nothing was published for the operation and no operation queued
\* behind it is ever handled.
C17_SaveFailureExits == []C17_SaveFailed /\ [][C17_SaveFailedStep]_vars

C17_Witness ==
    /\ file.res = "err"
    /\ pc = "exited_err"
    /\ queue # <<>>
    /\ default_controls # None
    /\ snapshot.default_controls = None

\* a step in which the caller's send_command returns
SendCommandStep == lastcall'.n = lastcall.n + 1 /\ lastcall'.op = "send_command"

\* send_command on a device without connection
C12_DisconnectedSendStep ==
    SendCommandStep /\ ~device.connection =>
        /\ lastcall'.res = "ok"
        /\ lastcall'.wire = <<>>
        /\ device' = device
        /\ tasks' = tasks

\* C12: send_command on a disconnected device returns Ok whatever the command
\* and the driver, makes no I/O, leaves the device disconnected and changes
\* no field of the driver (sequence counter, zoom state) and no task.
C12_DisconnectedSend == [][C12_DisconnectedSendStep]_vars

C12_Witness ==
    /\ lastcall.op = "send_command"
    /\ ~device.connection
    /\ device.kind = "lumix"
    /\ device.capabilities = Capability
    /\ lastcall.command.zoom # 0 /\ lastcall.command.autofocus /\ lastcall.command.ptr
    /\ lastcall.res = "ok" /\ lastcall.wire = <<>>

\* the zoom task or event reader of a connection that disconnect() has
\* dropped builds no frame, and no step but a call of the device takes a
\* sequence number
C14_DroppedTaskStep ==
    /\ \A k \in DOMAIN tasks :
          tasks[k].owner = "dropped" /\ tasks[k].of \in {"zoom", "event_reader"} =>
              tasks'[k].frames = tasks[k].frames
    /\ ~device.connection /\ lastcall' = lastcall => device'.next_seq = device.next_seq

\* C14: after disconnect() of a Ronin or Lumix has returned Ok, the tasks of
\* that connection take no further step: a zoom task that was in a burst
\* builds no further frame and takes no further sequence number.
C14_TasksStopWithConnection == [][C14_DroppedTaskStep]_vars

\* the capability an I/O item or a LANC code belongs to
Part(item) ==
    CASE item = "ptr_frame" -> "ptr"
      [] item \in {"stop_zoom", "start_zoom"} \cup { LancZoom(x) : x \in {-100, 50, 100} } -> "zoom"
      [] item \in {"adjust_focus"} \cup { LancFocus(x) : x \in {-100, 100} } -> "focus"
      [] item \in {"one_shot_af", "2843"} -> "autofocus"
      [] OTHER -> "none"

\* a send_command and a capability the device lacks
C15_CapabilityStep ==
    SendCommandStep =>
        \A p \in Capability \ device.capabilities :
            /\ \A k \in DOMAIN lastcall'.wire : Part(lastcall'.wire[k]) # p
            /\ \A k \in DOMAIN tasks :
                   \/ tasks'[k].channel = tasks[k].channel
                   \/ \A m \in 1..2 : Part(tasks'[k].channel[Len(tasks'[k].channel)][m]) # p
            /\ p = "ptr" => device'.next_seq = device.next_seq
            /\ p = "zoom" =>
                   /\ device'.curr_dir = device.curr_dir /\ device'.curr_speed = device.curr_speed
                   /\ \A k \in DOMAIN tasks : tasks'[k].speed = tasks[k].speed

\* C15: for every driver and every capability the device's capability list
\* lacks, send_command makes no I/O and changes no state for that part of the
\* command.
C15_CapabilityGating == [][C15_CapabilityStep]_vars

\* no two groups of the config have the same name
C18_DistinctNames(config) ==
    \A i, j \in DOMAIN config.groups :
        i # j => config.groups[i].name # config.groups[j].name

\* every device id listed in a group is a key of devices
C18_AllDefined(config) ==
    \A g \in DOMAIN config.groups : \A k \in DOMAIN config.groups[g].devices :
        config.groups[g].devices[k] \in config.devices

\* C18: for every config read from the file, load_config succeeds if and only
\* if no two groups have the same name and every device id listed in a group
\* is a key of devices.
C18_ConfigValidation ==
    evaluated.function = "load_config" /\ evaluated.input.content = "config" =>
        (evaluated.output = "Ok" <=>
            C18_DistinctNames(evaluated.input.config) /\ C18_AllDefined(evaluated.input.config))

C18_Witness ==
    /\ evaluated.function = "load_config" /\ evaluated.input.content = "config"
    /\ Len(evaluated.input.config.groups) = 3
    /\ evaluated.input.config.groups[1].name = evaluated.input.config.groups[3].name
    /\ evaluated.input.config.groups[1].name # evaluated.input.config.groups[2].name
    /\ evaluated.input.config.groups[2].devices # <<>>
    /\ C18_AllDefined(evaluated.input.config)
    /\ evaluated.output = "Err"

\* the CRC-16 of the bytes b by its definition: the register starts at init,
\* takes the message bit by bit (each byte from its lowest bit when refin, from
\* its highest otherwise), is shifted to the left and reduced by poly; the
\* result is reflected when refout and xorout is added
C19_Crc16(p, b) ==
    LET bit(byte, m) == IF p.refin THEN (byte \div 2^(m - 1)) % 2 ELSE (byte \div 2^(8 - m)) % 2
        step[r \in 0..65535, m \in 0..1] ==
            IF r \div 32768 # m THEN Xor((r * 2) % 65536, p.poly) ELSE (r * 2) % 65536
        bits[r \in 0..65535, byte \in 0..255, m \in 0..8] ==
            IF m = 0 THEN r ELSE step[bits[r, byte, m - 1], bit(byte, m)]
        reg[k \in 0..Len(b)] == IF k = 0 THEN p.init ELSE bits[reg[k - 1], b[k], 8]
    IN  Xor(IF p.refout THEN reverse_bits(reg[Len(b)], 16) ELSE reg[Len(b)], p.xorout)

\* the parameters the two drivers are said to use
C19_Parameters(function) ==
    IF function = "ronin::add_checksum"
    THEN [poly |-> 4129, init |-> 18796, refin |-> TRUE, refout |-> TRUE, xorout |-> 0]
    ELSE [poly |-> 4129, init |-> 0, refin |-> FALSE, refout |-> FALSE, xorout |-> 9649]

\* C19: add_checksum returns the payload unchanged followed by exactly two
\* bytes, the CRC-16 of the payload under the driver's parameters with its low
\* byte first, and so reproduces the recorded frames of both drivers.
C19_AddChecksum ==
    evaluated.function \in {"ronin::add_checksum", "crane::add_checksum"} =>
        LET b == evaluated.input
            out == evaluated.output
            crc == C19_Crc16(C19_Parameters(evaluated.function), b)
        IN  /\ Len(out) = Len(b) + 2
            /\ SubSeq(out, 1, Len(b)) = b
            /\ out[Len(b) + 1] = crc % 256
            /\ out[Len(b) + 2] = crc \div 256
            /\ evaluated.function = "ronin::add_checksum" /\ b = RoninPayload =>
                   out = RoninPayload \o <<245, 167>>
            /\ evaluated.function = "crane::add_checksum" =>
                   \A v \in CraneFrames : b = SubSeq(v, 1, 12) => out = v

C19_Witness ==
    /\ evaluated.function = "ronin::add_checksum"
    /\ evaluated.input = RoninPayload
    /\ evaluated.output = RoninPayload \o <<245, 167>>

\* the UTF-16 units a string of chars takes
C20_Units(s) == Len(s) + Cardinality({ k \in DOMAIN s : s[k] >= 65536 })

\* the chars that the little-endian UTF-16 bytes of a string stand for
C20_Decoded(bytes) ==
    LET unit(k) == bytes[2 * k - 1] + 256 * bytes[2 * k]
        chars[k \in 0..(Len(bytes) \div 2)] ==
            IF k = 0 THEN <<>>
            ELSE IF unit(k) \in 55296..56319 THEN chars[k - 1]
            ELSE IF unit(k) \in 56320..57343
                 THEN Append(chars[k - 2],
                             65536 + ((unit(k - 1) - 55296) * 1024) + (unit(k) - 56320))
            ELSE Append(chars[k - 1], unit(k))
    IN  chars[Len(bytes) \div 2]

\* "LUMIXTether" encoded: 4c0055004d00490058005400650074006800650072000000
C20_LumixTetherBytes ==
    <<76, 0, 85, 0, 77, 0, 73, 0, 88, 0, 84, 0, 101, 0, 116, 0, 104, 0, 101, 0, 114, 0, 0, 0>>

\* C20: encode_str(s) is the UTF-16 little-endian encoding of s followed by
\* one 16-bit NUL: it has 2 * (units of s) + 2 bytes, ends in two zero bytes,
\* and the bytes before them decode to s.
C20_EncodeStr ==
    evaluated.function = "encode_str" =>
        LET s == evaluated.input
            out == evaluated.output
        IN  /\ Len(out) = (2 * C20_Units(s)) + 2
            /\ out[Len(out) - 1] = 0 /\ out[Len(out)] = 0
            /\ C20_Decoded(SubSeq(out, 1, Len(out) - 2)) = s
            /\ s = LumixTether => out = C20_LumixTetherBytes

C20_Witness ==
    /\ evaluated.function = "encode_str"
    /\ evaluated.input = LumixTether
    /\ evaluated.output = C20_LumixTetherBytes


\* a send_command on a connected Lumix that has the capability cap
LumixSendStep(cap) ==
    /\ SendCommandStep
    /\ device.kind = "lumix" /\ device.connection /\ cap \in device.capabilities

\* a command with autofocus sends one_shot_af alone and leaves the zoom state
C29_AutofocusStep ==
    LumixSendStep("autofocus") /\ lastcall'.command.autofocus =>
        /\ \A k \in DOMAIN lastcall'.wire : lastcall'.wire[k] = "one_shot_af"
        /\ Len(lastcall'.wire) <= 1
        /\ lastcall'.res = "ok" => Len(lastcall'.wire) = 1
        /\ device'.curr_dir = device.curr_dir /\ device'.curr_speed = device.curr_speed

\* C29: on a connected Lumix with the Autofocus capability a command with
\* autofocus = true makes send_command send exactly one one_shot_af and
\* return: no adjust_focus, stop_zoom or start_zoom is sent for it and
\* curr_dir, curr_speed stay as they are.
C29_AutofocusShortCircuit == [][C29_AutofocusStep]_vars

\* the zoom transactions among the I/O of a call
ZoomTransactions(wire) == SelectSeq(wire, LAMBDA x : x \in {"stop_zoom", "start_zoom"})

\* a zoom command whose transactions all succeed
C30_ZoomStep ==
    LumixSendStep("zoom") /\ lastcall'.res = "ok" =>
        LET zoom == lastcall'.command.zoom
            dir == ZoomDir(device, zoom)
            speed == ZoomSpeed(zoom)
            made == ZoomTransactions(lastcall'.wire)
        IN  /\ IF dir = device.curr_dir /\ speed = device.curr_speed
               THEN made = <<>>
               ELSE made = (IF device.curr_speed # "Off" THEN <<"stop_zoom">> ELSE <<>>)
                           \o (IF speed # "Off" THEN <<"start_zoom">> ELSE <<>>)
            /\ device'.curr_dir = dir /\ device'.curr_speed = speed
            /\ speed # "Off" /\ made # <<>> =>
                   device'.zoomed.dir = dir /\ device'.zoomed.speed = speed
            /\ zoom = 0 => device'.curr_dir = device.curr_dir
            \* start_zoom and stop_zoom alternate, start_zoom first
            /\ ~device.failed =>
                   LET all == <<device.zoomed.sent>> \o made
                   IN  \A k \in 1..(Len(all) - 1) :
                           all[k + 1] = IF all[k] = "start_zoom" THEN "stop_zoom" ELSE "start_zoom"

\* while no transaction of the connection has failed, the camera zooms
\* exactly when curr_speed is not Off
C30_ZoomState ==
    device.kind = "lumix" /\ device.connection /\ ~device.failed =>
        (device.curr_speed # "Off" <=> device.zoomed.sent = "start_zoom")

\* C30: over the zoom commands of a connected Lumix without I/O error, a
\* command whose (dir, speed) is (curr_dir, curr_speed) causes no I/O;
\* otherwise stop_zoom is sent first iff curr_speed is not Off, then
\* start_zoom with the new pair iff the new speed is not Off, and the pair
\* becomes (curr_dir, curr_speed); so start_zoom and stop_zoom alternate
\* beginning with start_zoom, and zoom = 0 keeps the last direction.
C30_ZoomStateMachine == []C30_ZoomState /\ [][C30_ZoomStep]_vars

C30_Witness ==
    /\ lastcall.op = "send_command" /\ lastcall.res = "ok"
    /\ device.kind = "lumix" /\ device.connection
    /\ ZoomTransactions(lastcall.wire) = <<"stop_zoom", "start_zoom">>
    /\ lastcall.command.zoom = 100
    /\ device.curr_dir = "Tele" /\ device.curr_speed = "High"


\* a send_command on a connected Ronin with pan = tilt = roll = 0 and zoom =
\* 0 while the commanded zoom speed is zero
C21_IdleStep ==
    /\ SendCommandStep /\ device.kind = "ronin" /\ device.connection
    /\ ~lastcall'.command.ptr /\ lastcall'.command.zoom = 0
    /\ tasks[device.task].speed = 0
    => /\ lastcall'.res = "ok"
       /\ lastcall'.wire = <<>>
       /\ device' = device
       /\ tasks' = tasks

\* C21: an idle command to a connected Ronin returns Ok without any I/O: no
\* link probe, no reconnect, no frame, no sequence number taken and no value
\* published to the zoom task.
C21_IdleCommand == [][C21_IdleStep]_vars

C21_Witness ==
    /\ lastcall.op = "send_command" /\ lastcall.n = 3
    /\ device.kind = "ronin" /\ device.connection
    /\ ~lastcall.command.ptr /\ lastcall.command.zoom = 0
    /\ tasks[device.task].speed = 0
    /\ lastcall.res = "ok" /\ lastcall.wire = <<>>

\* ---- C24
\* the zoom task has used up its ticks
C24_OutOfTicks == ronin.task.ticks = MaxTicks

\* the zoom task is in a burst at the speed v
C24_InBurst(v) == ronin.task.pc \in {"write", "writing", "sleep"} /\ ronin.task.speed = v

\* C24: whenever the zoom speed is set to a non-zero value the zoom task
\* comes to be in a burst at that speed, unless the speed is set anew first;
\* once the speed is zero the task starts at most one further zoom frame and,
\* unless the speed is set anew, comes to wait for the next change
C24_ZoomTaskResponsive ==
    /\ \A v \in {-100, 100} :
          (ronin.zoom_speed = v /\ ronin.unseen)
              ~> (C24_InBurst(v) \/ ronin.zoom_speed # v \/ C24_OutOfTicks)
    /\ (ronin.connection /\ ronin.zoom_speed = 0)
          ~> ((ronin.task.pc = "waiting" /\ ~ronin.unseen) \/ ronin.zoom_speed # 0)
    /\ [](ronin.late <= 1)

\* ---- C22
\* C22: the sequence numbers handed out, to PTR frames and to zoom frames,
\* follow one another by 1 modulo 65536, the counter is the successor of the
\* last one handed out, a frame carries the number handed out for it, and the
\* counter moves only by handing out the value it had
C22_Handed ==
    /\ \A i \in 1..(Len(ronin.handed) - 1) :
          ronin.handed[i + 1].seq = (ronin.handed[i].seq + 1) % 65536
    /\ \A i, j \in 1..Len(ronin.handed) : i # j => ronin.handed[i].seq # ronin.handed[j].seq
    /\ ronin.handed # <<>> =>
          ronin.next_seq = (ronin.handed[Len(ronin.handed)].seq + 1) % 65536
    /\ ronin.task.frame.built =>
          \E i \in 1..Len(ronin.handed) :
              ronin.handed[i] = [seq |-> ronin.task.frame.seq, to |-> "zoom"]

C22_HandOut ==
    ronin'.next_seq # ronin.next_seq =>
        /\ Len(ronin'.handed) = Len(ronin.handed) + 1
        /\ ronin'.handed[Len(ronin'.handed)].seq = ronin.next_seq
        /\ ronin'.next_seq = (ronin.next_seq + 1) % 65536

C22_SequenceNumbers == []C22_Handed /\ [][C22_HandOut]_vars

\* the counter has wrapped between a PTR frame and a zoom frame
C22_Witness ==
    \E i \in 1..(Len(ronin.handed) - 1) :
        /\ ronin.handed[i].seq = 65535 /\ ronin.handed[i + 1].seq = 0
        /\ ronin.handed[i].to # ronin.handed[i + 1].to

\* ---- C23
\* C23: a PTR write and a zoom-frame write of one connection are never in
\* flight together
C23_WritesNeverOverlap == ronin.writing # {"ptr", "zoom"}

\* ---- C25
\* C25: a tick of a burst, at a speed of 1.0 or -1.0 (an increment of 1000 or
\* -1000), sets the target to current_zoom + increment when the speed of the
\* tick before was zero or of the other sign; otherwise it adds the increment
\* to the target if the zoom level changed within the last 200 ms and leaves
\* the target as it was if not; the zoom frame of the tick carries the target
\* brought into [0, 4095]
C25_TickStep ==
    ronin'.task.ticks = ronin.task.ticks + 1 =>
        LET speed == ronin'.task.speed
            prev == ronin'.task.prev_speed
            step == IF speed > 0 THEN 1000 ELSE -1000
            target == ronin'.task.target_zoom
        IN  /\ speed \in {-100, 100}
            /\ target = IF prev = 0 \/ prev * speed < 0 THEN ronin.current_zoom + step
                        ELSE IF ronin.moved THEN ronin.task.target_zoom + step
                        ELSE ronin.task.target_zoom
            /\ ronin'.task.frame.built =>
                  /\ ronin'.task.frame.zoom \in 0..4095
                  /\ target \in 0..4095 => ronin'.task.frame.zoom = target
                  /\ target < 0 => ronin'.task.frame.zoom = 0
                  /\ target > 4095 => ronin'.task.frame.zoom = 4095

C25_ZoomTarget == [][C25_TickStep]_vars

\* the second tick of a burst has added its increment to the target of the
\* first, the zoom level having changed
C25_Witness ==
    /\ ronin.task.ticks = 2 /\ ronin.task.prev_speed = 100 /\ ronin.task.speed = 100
    /\ ronin.moved
    /\ ronin.task.frame.built /\ ronin.task.frame.zoom = 2000

\* ---- C26
\* the target of the tick taken, brought into [0, 4095]
C26_Clamped ==
    IF ronin'.task.target_zoom < 0 THEN 0
    ELSE IF ronin'.task.target_zoom > 4095 THEN 4095 ELSE ronin'.task.target_zoom

\* the tick taken has built exactly one zoom frame, or none
C26_OneFrame ==
    /\ ronin'.task.frame.built
    /\ ronin'.handed = Append(ronin.handed, [seq |-> ronin.next_seq, to |-> "zoom"])
    /\ ronin'.task.frame.seq = ronin.next_seq
C26_NoFrame == ~ronin'.task.frame.built /\ ronin'.handed = ronin.handed

\* C26 as amended: a tick emits no zoom frame when the current zoom level is
\* less than 20 counts from an endpoint and the clamped target is not on the
\* far side of it (at most the level near 0, at least the level near 4095);
\* every other tick of a burst emits exactly one zoom frame
C26_TickStep ==
    ronin'.task.ticks = ronin.task.ticks + 1 =>
        IF \/ C26_Clamped <= ronin.current_zoom /\ ronin.current_zoom < 20
           \/ C26_Clamped >= ronin.current_zoom /\ ronin.current_zoom > 4095 - 20
        THEN C26_NoFrame
        ELSE C26_OneFrame

C26_EndpointSuppression == [][C26_TickStep]_vars

\* C26 as claimed: a tick emits no zoom frame when the clamped target is
\* less than 20 counts from the endpoint the zoom moves towards; every other
\* tick of a burst emits exactly one zoom frame
C26_TickStep_Claimed ==
    ronin'.task.ticks = ronin.task.ticks + 1 =>
        IF \/ ronin'.task.speed < 0 /\ C26_Clamped < 20
           \/ ronin'.task.speed > 0 /\ C26_Clamped > 4095 - 20
        THEN C26_NoFrame
        ELSE C26_OneFrame

C26_EndpointSuppression_Claimed == [][C26_TickStep_Claimed]_vars

\* a tick at the level 4090 with a target beyond 4095 has emitted no frame
C26_Witness ==
    /\ ronin.task.pc = "sleep" /\ ~ronin.task.frame.built
    /\ ronin.task.target_zoom = 5090

\* ---- C27
\* the I/O of a send_command that finds the link down, up to its PTR write:
\* the probe, then force-disconnect, connect, the discovery of the two
\* characteristics and the subscription, each once
C27_Reconnect == <<"is_connected", "disconnect", "connect", "discover", "discover", "subscribe">>

\* the I/O of the send_command under way or last made shows the link down
C27_LinkDown(io) == Len(io) >= 2 /\ io[2] # "write"

\* the I/O of a call is the reconnect and then at most the PTR write, or, of
\* a call that returned an error, a part of the reconnect and nothing else
C27_Order ==
    (ronin.call.n >= 1 /\ C27_LinkDown(ronin.call.wire)) =>
        IF ronin.call.res = "err"
        THEN /\ \E k \in 2..6 : ronin.call.wire = SubSeq(C27_Reconnect, 1, k)
             /\ ronin.call.seqs = 0
        ELSE \/ ronin.call.wire = C27_Reconnect
             \/ ronin.call.wire = C27_Reconnect \o <<"write">>

\* a send_command that returns an error has taken no sequence number,
\* started no write and left the zoom speed as it was
C27_FailedStep ==
    (ronin'.call.n = ronin.call.n + 1 /\ ronin'.call.res = "err") =>
        /\ ronin'.next_seq = ronin.next_seq /\ ronin'.handed = ronin.handed
        /\ ronin'.writing = ronin.writing
        /\ ronin'.zoom_speed = ronin.zoom_speed /\ ronin'.unseen = ronin.unseen
        /\ ronin'.pc = "ready"

\* C27: a send_command that is not idle and finds the link down makes one
\* reconnect, in the order force-disconnect, connect, discovery,
\* subscription, before its PTR write; if a step of it fails the call returns
\* the error with no further I/O, no frame written, no sequence number taken
\* and the zoom speed unchanged
C27_ReconnectInSend == []C27_Order /\ [][C27_FailedStep]_vars

\* a PTR frame was written after a reconnect
C27_Witness == ronin.call.n >= 1 /\ ronin.call.wire = C27_Reconnect \o <<"write">>

\* ---- C28
\* C28: a connect polls the adapter at most ten times, and the scan it
\* started is on only while it polls, or after a stop_scan that failed
C28_ScanBracketed ==
    /\ ronin.polls <= 10
    /\ ronin.scan =>
          \/ ronin.pc = "scan"
          \/ ronin.pc = "failed" /\ ronin.call.wire[Len(ronin.call.wire)] = "stop_scan"

\* ---- C37
\* the place of a sequence number among those handed out
C37_Place(seq) == CHOOSE i \in 1..Len(ronin.handed) : ronin.handed[i].seq = seq

\* C37: the frames are given to peripheral.write in the order in which their
\* sequence numbers were handed out
C37_WrittenInSeqOrder ==
    \A i, j \in 1..Len(ronin.written) :
        i < j => C37_Place(ronin.written[i]) < C37_Place(ronin.written[j])

\* ---- C31
\* C31: for a zoom value (in 1/100000) the speed derived is Off when |zoom| <
\* 0.0001, Low when 0.0001 <= |zoom| <= 0.75 and High when |zoom| > 0.75; the
\* direction is Wide for zoom < 0, Tele for zoom > 0 and the current one for
\* zoom = 0
C31_SpeedMapping ==
    evaluated.function = "handle_zoom" =>
        LET zoom == evaluated.input[1]
            abs == IF zoom < 0 THEN -zoom ELSE zoom
        IN  /\ evaluated.output[2] = IF abs < 10 THEN "Off"
                                     ELSE IF abs <= 75000 THEN "Low" ELSE "High"
            /\ evaluated.output[1] = IF zoom < 0 THEN "Wide"
                                     ELSE IF zoom > 0 THEN "Tele" ELSE evaluated.input[2]

\* ---- C32
\* C32: in a session the n-th transaction carries the transaction id n in
\* its command packet and in both id fields of its data packet, and the next
\* transaction will carry the next id, also after a transaction has failed
C32_TransactionIds ==
    (device.kind = "lumix" /\ device.connection) =>
        /\ \A n \in 1..Len(device.packets) :
              /\ device.packets[n].transaction_id = n
              /\ device.packets[n].data \in {<<>>, <<n, n>>}
        /\ device.curr_transaction_id = Len(device.packets) + 1

\* a transaction with a data packet was made after one that failed
C32_Witness ==
    /\ device.kind = "lumix" /\ device.connection /\ device.failed
    /\ lastcall.op = "send_command" /\ lastcall.res = "ok"
    /\ Len(device.packets) >= 3
    /\ device.packets[Len(device.packets)].data # <<>>

\* ---- C33
\* On a connected LANC device send_command queues nothing when zoom = 0,
\* autofocus is false and focus = 0, and else exactly one pair: the zoom code
\* and the focus-or-autofocus code when both kinds are present, the single code
\* twice when one is; with autofocus the second kind of code is 2843 and the
\* pair holds no focus code.
C33_FocusCodes == { LancFocus(x) : x \in -100..100 }
C33_Pair(command, pair) ==
    LET second == IF command.autofocus THEN "2843" ELSE LancFocus(command.focus)
        both == command.zoom # 0 /\ (command.autofocus \/ command.focus # 0)
    IN  /\ Len(pair) = 2
        /\ both => pair = <<LancZoom(command.zoom), second>>
        /\ (~both /\ command.zoom # 0) => pair = <<LancZoom(command.zoom), LancZoom(command.zoom)>>
        /\ (~both /\ command.zoom = 0) => pair = <<second, second>>
        /\ command.autofocus =>
              /\ \E n \in 1..2 : pair[n] = "2843"
              /\ \A n \in 1..2 : pair[n] \notin C33_FocusCodes
C33_Send ==
    (/\ lastcall'.n = lastcall.n + 1 /\ lastcall'.op = "send_command"
     /\ device.kind = "lanc" /\ device.connection)
    => LET command == lastcall'.command
           before == tasks[device.task].channel
           after == tasks'[device.task].channel
       IN  IF command.zoom = 0 /\ ~command.autofocus /\ command.focus = 0
           THEN after = before
           ELSE /\ Len(after) = Len(before) + 1
                /\ SubSeq(after, 1, Len(before)) = before
                /\ C33_Pair(command, after[Len(after)])
C33_PairFormation == [][C33_Send]_vars

\* a pair of one code, sent twice, was queued behind another pair with 2843
\* for a command with a focus value
C33_Witness ==
    /\ device.kind = "lanc" /\ device.connection
    /\ lastcall.op = "send_command" /\ lastcall.command.zoom # 0
    /\ ~lastcall.command.autofocus /\ lastcall.command.focus = 0
    /\ LET channel == tasks[device.task].channel
       IN  /\ Len(channel) = 2
           /\ channel[1][2] = "2843"
           /\ channel[2] = <<LancZoom(lastcall.command.zoom), LancZoom(lastcall.command.zoom)>>

\* ---- C34
\* Within a burst of a LANC sender every write is preceded by a 0x0A read
\* since the write before, and the k-th write (from 0) is element k mod 2 of
\* the pair.
C34_Alternates ==
    \A k \in DOMAIN tasks : tasks[k].of = "sender" =>
        \A n \in 1..Len(tasks[k].written) :
            tasks[k].written[n].code = tasks[k].data[((n - 1) % 2) + 1]
C34_Heard ==
    \A k \in DOMAIN tasks : tasks[k].of = "sender" =>
        \A n \in 1..Len(tasks[k].written) : tasks[k].written[n].heard
C34_Handshake == C34_Alternates /\ C34_Heard

\* ---- C40
\* Once disconnect() of a LANC device has returned, the sender task of that
\* connection writes no further command to the serial port.
C40_QuietAfterDisconnect ==
    \A k \in DOMAIN tasks : tasks[k].of = "sender" =>
        \A n \in 1..Len(tasks[k].written) : tasks[k].written[n].owner = "connection"

\* ---- C35
\* For every pair taken from the channel the burst of the sender task ends
\* and the task waits on the channel again, whatever the bridge does.
C35_InBurst(k) == k \in DOMAIN tasks /\ tasks[k].of = "sender" /\ tasks[k].state = "reading"
C35_BurstEnds == \A k \in 1..MaxCalls : C35_InBurst(k) ~> ~C35_InBurst(k)

\* ---- C39
\* When Lumix::connect returns an error the device has no connection handle,
\* and no event reader spawned by that attempt keeps running in the serving
\* process.
C39_NoHandle ==
    (/\ device.kind = "lumix" /\ lastcall.op \in {"connect", "reconnect"}
     /\ lastcall.res = "err" /\ "connect" \in Range(lastcall.wire))
    => ~device.connection
C39_NoTask ==
    Serving => \A k \in DOMAIN tasks :
                  (tasks[k].of = "event_reader" /\ tasks[k].owner = "failed")
                  => tasks[k].state # "running"
C39_FailedConnectLeavesNothing == C39_NoHandle /\ C39_NoTask

\* ---- C38
\* Between the send_command calls of a connected Lumix, curr_speed is Off
\* exactly when the last zoom transaction completely sent is a stop_zoom or
\* none was sent, and else (curr_dir, curr_speed) are the dir and speed of the
\* last start_zoom completely sent; also after an I/O error in handle_zoom.
C38_Tracks ==
    /\ device.curr_speed = "Off" <=> device.zoomed.sent \in {"none", "stop_zoom"}
    /\ device.curr_speed # "Off" =>
          device.curr_dir = device.zoomed.dir /\ device.curr_speed = device.zoomed.speed
C38_ZoomStateTracksWire ==
    (device.kind = "lumix" /\ device.connection /\ "zoom" \in device.capabilities)
    => C38_Tracks
\* the same of a connection that has seen no I/O error
C38_ZoomStateTracksWire_NoError ==
    (/\ device.kind = "lumix" /\ device.connection /\ "zoom" \in device.capabilities
     /\ ~device.failed)
    => C38_Tracks

\* ---- C36
\* At every instant the config file holds a complete content, the old one or
\* the new one, never a partial one.
C36_AtomicSave == file.complete

====
